---- MODULE Spec2Model ----
(***************************************************************************)
(* Model of the web/desktop Uploader component                             *)
(* (src/src/api/electronStore.ts, function Uploader).                      *)
(*                                                                         *)
(* One action is one JavaScript turn: an event handler or an effect run    *)
(* from its start to its first await, or the continuation of an async     *)
(* function from the settling of the promise it awaits to its next await.  *)
(* Every async upload function started by the component is a "task" with  *)
(* its own program counter and locals.                                     *)
(***************************************************************************)
EXTENDS Integers, Sequences, FiniteSets, TLC

(***************************************************************************)
(* Bounds of the model.                                                    *)
(***************************************************************************)
MaxTasks == 2        \* upload functions started over one page life
MaxSelections == 1   \* file selections made by the user or the app
MaxFailed == 1       \* items that fail before the manager is reset
MaxSkipped == 1      \* items skipped before the manager is reset
MaxAnswers == 1      \* clicks a modal receives between opening and closing

(***************************************************************************)
(* Files.  A file is a number; Folder gives the top-level folder of its    *)
(* relative path ("" for a loose file).                                    *)
(***************************************************************************)
Folder(f) == CASE f \in {1, 3} -> "A"
               [] f = 2 -> "B"
               [] OTHER -> ""

Nested == <<1, 2, 3>>        \* A/1 B/2 A/3 : two top-level folders
SingleFolder == <<1, 3>>     \* A/1 A/3
Loose == <<4, 5>>            \* two files picked individually

Null == "<null>"             \* JavaScript null / undefined
Truthy(s) == s \notin {"", Null}

FIRST_ALBUM_NAME == "My First Album"
DefaultBucket == "default"

FILES == "FILES"
FOLDERS == "FOLDERS"
ZIPS == "ZIPS"
UploadTypes == {FILES, FOLDERS, ZIPS}

SINGLE_COLLECTION == "SINGLE_COLLECTION"
COLLECTION_PER_FOLDER == "COLLECTION_PER_FOLDER"

SESSION_EXPIRED == "SESSION_EXPIRED"
SUBSCRIPTION_EXPIRED == "SUBSCRIPTION_EXPIRED"
STORAGE_QUOTA_EXCEEDED == "STORAGE_QUOTA_EXCEEDED"
OTHER_ERROR == "OTHER_ERROR"
ErrorKinds == {SESSION_EXPIRED, SUBSCRIPTION_EXPIRED, STORAGE_QUOTA_EXCEEDED,
               OTHER_ERROR}

(***************************************************************************)
(* Sequence helpers.                                                       *)
(***************************************************************************)
Range(s) == {s[i] : i \in 1..Len(s)}

(***************************************************************************)
(* utils/upload: getImportSuggestion.  Top-level folders of the batch:     *)
(* none or one gives an unnested suggestion named by the shared folder     *)
(* (absent for loose files), two or more a nested one without a name.      *)
(***************************************************************************)
TopFolders(files) == {Folder(files[i]) : i \in 1..Len(files)} \ {""}

getImportSuggestion(type, files) ==
    LET dirs == TopFolders(files) IN
    IF Cardinality(dirs) >= 2
    THEN [rootFolderName |-> Null, hasNestedFolders |-> TRUE]
    ELSE IF Cardinality(dirs) = 1
    THEN [rootFolderName |-> CHOOSE d \in dirs : TRUE,
          hasNestedFolders |-> FALSE]
    ELSE [rootFolderName |-> Null, hasNestedFolders |-> FALSE]

DEFAULT_IMPORT_SUGGESTION ==
    [rootFolderName |-> Null, hasNestedFolders |-> FALSE]

(***************************************************************************)
(* utils/upload: groupFilesBasedOnParentFolder.  A JavaScript Map keeps    *)
(* insertion order: the map is a sequence of [name, files] entries in the  *)
(* order in which the names first occur.                                   *)
(***************************************************************************)
GroupKey(f) == IF Folder(f) = "" THEN DefaultBucket ELSE Folder(f)

MapHas(map, name) == \E i \in 1..Len(map) : map[i].name = name

MapPush(map, name, f) ==
    IF MapHas(map, name)
    THEN [i \in 1..Len(map) |->
            IF map[i].name = name
            THEN [map[i] EXCEPT !.files = Append(@, f)]
            ELSE map[i]]
    ELSE Append(map, [name |-> name, files |-> <<f>>])

RECURSIVE GroupFrom(_, _, _)
GroupFrom(files, i, map) ==
    IF i > Len(files) THEN map
    ELSE GroupFrom(files, i + 1, MapPush(map, GroupKey(files[i]), files[i]))

groupFilesBasedOnParentFolder(files) == GroupFrom(files, 1, <<>>)

(***************************************************************************)
(* State.                                                                  *)
(***************************************************************************)
VARIABLES
    isElectron,          \* isElectron()
    electronAPIs,        \* ImportService.checkAllElectronAPIsExists()
    isFirstUpload,       \* props.isFirstUpload
    canvasBlocked,       \* isCanvasBlocked()
    folderSelectorFiles, \* props.folderSelectorFiles
    fileSelectorFiles,   \* props.fileSelectorFiles
    dragAndDropFiles,    \* props.dragAndDropFiles
    sharedFiles,         \* appContext.sharedFiles
    webFiles,            \* useState webFiles
    webFilesSrc,         \* which props array webFiles currently is
    electronFiles,       \* useState electronFiles
    electronSrc,         \* where electronFiles came from
    queuedElectronFiles, \* setElectronFiles call waiting behind the effect
    effectPending,       \* a dependency of the selection effect changed
    toUploadFiles,       \* useRef toUploadFiles
    isPendingDesktopUpload,
    pendingDesktopUploadCollectionName,
    uploadType,          \* useRef uploadType
    zipPaths,            \* useRef zipPaths is set
    importSuggestion,    \* useState importSuggestion
    uploadInProgress,    \* props.uploadInProgress
    uploadProgressView,  \* useState uploadProgressView
    choiceModalView,     \* useState choiceModalView
    choiceAnswers,       \* options of the choice modal clicked since it opened
    collectionSelector,  \* attributes given to the collection selector
    collectionNamer,     \* setCollectionNamerAttributes was called
    namerAnswers,        \* names the namer has submitted since then
    pendingFetch,        \* ImportService.getPendingUploads() promise
    dialog,              \* file dialog opened by handleUpload
    tasks,               \* the async upload functions started so far
    serverCollections,   \* the user's remote albums; the id is the index
    mgr,                 \* uploadManager
    nSelections,         \* file selections started so far
    pendingFiles,        \* files returned by getPendingUploads
    resumeAttempts,      \* uploads started from the pending branch
    justEnded,           \* the run that ended in the last step, if any
    reloaded,            \* Router.reload() was called
    cancelCalls          \* what cancelUploads called, in order

\* lib/main.dart: one isolate of the mobile app.
VARIABLES
    platformIsIOS,        \* Platform.isIOS
    isolateAlive,         \* Isolate.current.kill has not been called
    initializationStatus, \* _initializationStatus: "null", or the Completer
    initBody,             \* the initialisers of _init: none, running, ...
    initRuns,             \* how often the initialisers were started
    procs,                \* the async functions started by the events
    suicide,              \* the timer of _scheduleSuicide and its _killBGTask
    nEvents               \* events delivered to the isolate so far

mainVars == <<platformIsIOS, isolateAlive, initializationStatus, initBody,
              initRuns, procs, suicide, nEvents>>

\* lib/ui/tools/lock_screen.dart: one _LockScreenState.
VARIABLES
    isShowingLockScreen,        \* _isShowingLockScreen
    hasPlacedAppInBackground,   \* _hasPlacedAppInBackground
    hasAuthenticationFailed,    \* _hasAuthenticationFailed
    lastAuthenticatingTime,     \* lastAuthenticatingTime: <<>> is null,
                                \* <<t>> the time t in ms
    now,                        \* DateTime.now().millisecondsSinceEpoch
    lifecycle,                  \* the AppLifecycleState last delivered
    outstanding,                \* requestAuthentication calls not settled
    requested,                  \* sources of the requests made, in order
    widget                      \* the State: unbuilt, mounted, unlocked
                                \* (AppLock.didUnlock() called), disposed

lockVars == <<isShowingLockScreen, hasPlacedAppInBackground,
              hasAuthenticationFailed, lastAuthenticatingTime, now,
              lifecycle, outstanding, requested, widget>>

\* What no step of the Uploader changes: its environment, and the state of
\* the mobile app, which is a program of its own.
envVars == <<isElectron, electronAPIs, isFirstUpload, canvasBlocked, mainVars,
             lockVars>>
propVars == <<folderSelectorFiles, fileSelectorFiles, dragAndDropFiles>>
fileVars == <<sharedFiles, webFiles, webFilesSrc, electronFiles,
              electronSrc, queuedElectronFiles>>
refVars == <<toUploadFiles, isPendingDesktopUpload,
             pendingDesktopUploadCollectionName, uploadType, zipPaths>>
modalVars == <<choiceModalView, choiceAnswers, collectionSelector,
               collectionNamer, namerAnswers>>
batchVars == <<tasks, mgr, uploadProgressView, uploadInProgress>>
miscVars == <<importSuggestion, pendingFetch, dialog, serverCollections,
              nSelections, pendingFiles, resumeAttempts, reloaded, cancelCalls>>

vars == <<envVars, propVars, fileVars, effectPending, refVars, modalVars,
          batchVars, miscVars, justEnded>>

(***************************************************************************)
(* The Electron path is taken when isElectron() and                        *)
(* ImportService.checkAllElectronAPIsExists() both hold (l.138, l.498).    *)
(***************************************************************************)
ElectronAPIsExist == isElectron /\ electronAPIs

NoDialog == [kind |-> "none", type |-> Null]

ClosedSelector ==
    [open |-> FALSE, showNextModal |-> "none", rootFolderName |-> Null,
     answers |-> 0]

(***************************************************************************)
(* uploadManager (services/upload/uploadManager): the stage shown by the   *)
(* progress view and the items whose last outcome was Failed.              *)
(***************************************************************************)
(***************************************************************************)
(* uploadManager: the stage it reports, the counters it reports through    *)
(* setUploadCounter and setFinishedUploads, and the items whose upload     *)
(* failed.  prepareForNewUpload resets all of it to empty and zero.        *)
(***************************************************************************)
UPLOADED == "UPLOADED"
ALREADY_UPLOADED == "ALREADY_UPLOADED"
FAILED == "FAILED"
UploadResults == {UPLOADED, ALREADY_UPLOADED, FAILED}

\* The results an item can end with, given what the manager has recorded:
\* the model lets at most MaxFailed items fail and at most MaxSkipped items
\* be skipped before the next reset.
ResultsAfter(m) ==
    {r \in UploadResults :
        /\ r = FAILED => m.failed < MaxFailed
        /\ r = ALREADY_UPLOADED => m.skipped < MaxSkipped}

InitMgr ==
    [stage |-> "IDLE", failedFiles |-> <<>>, total |-> 0, finished |-> 0,
     succeeded |-> 0, failed |-> 0, skipped |-> 0]

prepareForNewUpload(m) == [InitMgr EXCEPT !.stage = "START"]

\* queueFilesForUpload(items, collections) up to its first upload.
queueFilesForUpload(m, items) ==
    [m EXCEPT !.stage = "UPLOADING", !.total = Len(items)]

\* One item has gone through its stages and ended with the given result.
fileProcessed(m, item, result) ==
    [m EXCEPT
       !.finished = @ + 1,
       !.succeeded = IF result = UPLOADED THEN @ + 1 ELSE @,
       !.skipped = IF result = ALREADY_UPLOADED THEN @ + 1 ELSE @,
       !.failed = IF result = FAILED THEN @ + 1 ELSE @,
       !.failedFiles = IF result = FAILED THEN Append(@, item) ELSE @]

(***************************************************************************)
(* Locals of one run of uploadFilesToExistingCollection,                   *)
(* uploadFilesToNewCollections or retryFailed.  The fields from "ended"    *)
(* on record what the run did.                                             *)
(***************************************************************************)
NewTask(kind, strategy, name, coll, resumed) ==
    [kind |-> kind, pc |-> "preSync", strategy |-> strategy,
     collectionName |-> name, collection |-> coll,
     batch |-> <<>>, map |-> <<>>, existing |-> <<>>, gi |-> 0,
     items |-> <<>>, processed |-> 0, collections |-> <<>>,
     resumed |-> resumed,
     ended |-> "no", albumCalls |-> <<>>, albumResults |-> <<>>,
     nSyncCollections |-> 0, queued |-> FALSE, preparedInFlight |-> FALSE,
     albumRejected |-> FALSE, albumFailedDialogs |-> 0,
     rejectedWith |-> Null, sessionExpiredShown |-> 0,
     notifications |-> <<>>, failedBefore |-> <<>>,
     countersBefore |-> <<>>,
     log |-> <<"preUploadAction">>]

\* The record of a run is kept while it runs and in the state in which it
\* ends; afterwards only the fact that it has ended is kept.
NoTask == [NewTask("none", Null, Null, 0, FALSE) EXCEPT
             !.pc = "none", !.log = <<>>]

Forgotten == [NewTask("ended", Null, Null, 0, FALSE) EXCEPT
                !.pc = "done", !.ended = "forgotten", !.log = <<>>]

\* The isolate before main() or a headless handler has run.
MainAtRest ==
    /\ platformIsIOS = FALSE
    /\ isolateAlive = TRUE
    /\ initializationStatus = "null"
    /\ initBody = "none"
    /\ initRuns = 0
    /\ procs = <<>>
    /\ suicide = "off"
    /\ nEvents = 0

\* The fields of _LockScreenState as declared (l.17-20), no widget built.
LockAtRest ==
    /\ isShowingLockScreen = FALSE
    /\ hasPlacedAppInBackground = FALSE
    /\ hasAuthenticationFailed = FALSE
    /\ lastAuthenticatingTime = <<>>
    /\ now = 0
    /\ lifecycle = "resumed"
    /\ outstanding = 0
    /\ requested = <<>>
    /\ widget = "unbuilt"

\* The Uploader component after its construction, in its environment.
UploaderMounted ==
    /\ folderSelectorFiles = <<>>
    /\ fileSelectorFiles = <<>>
    /\ dragAndDropFiles = <<>>
    /\ sharedFiles = <<>>
    /\ webFiles = <<>>
    /\ webFilesSrc = "none"
    /\ electronFiles = <<>>
    /\ electronSrc = "none"
    /\ queuedElectronFiles = <<>>
    /\ effectPending = FALSE
    /\ toUploadFiles = <<>>
    /\ isPendingDesktopUpload = FALSE
    /\ pendingDesktopUploadCollectionName = ""
    /\ uploadType = Null
    /\ zipPaths = FALSE
    /\ importSuggestion = DEFAULT_IMPORT_SUGGESTION
    /\ uploadInProgress = FALSE
    /\ uploadProgressView = FALSE
    /\ choiceModalView = FALSE
    /\ choiceAnswers = 0
    /\ collectionSelector = ClosedSelector
    /\ collectionNamer = FALSE
    /\ namerAnswers = 0
    /\ pendingFetch = IF ElectronAPIsExist THEN "inflight" ELSE "none"
    /\ dialog = NoDialog
    /\ tasks = <<>>
    /\ serverCollections = <<"A">>
    /\ mgr = InitMgr
    /\ nSelections = 0
    /\ pendingFiles = <<>>
    /\ resumeAttempts = 0
    /\ justEnded = NoTask
    /\ reloaded = FALSE
    /\ cancelCalls = <<>>

\* No Uploader is mounted in the mobile app: its variables keep one value.
NoUploader ==
    /\ isElectron = FALSE
    /\ electronAPIs = FALSE
    /\ isFirstUpload = FALSE
    /\ canvasBlocked = FALSE
    /\ UploaderMounted

Init ==
    /\ MainAtRest
    /\ LockAtRest
    /\ isElectron \in BOOLEAN
    /\ electronAPIs \in (IF isElectron THEN BOOLEAN ELSE {FALSE})
    /\ isFirstUpload \in BOOLEAN
    /\ canvasBlocked \in BOOLEAN
    /\ UploaderMounted

(***************************************************************************)
(* handleUpload(type) on the desktop: handleDesktopUpload up to its await  *)
(* of the native dialog.                                                   *)
(***************************************************************************)
handleUpload(type) ==
    /\ justEnded' = NoTask
    /\ ~reloaded /\ ~effectPending
    /\ ElectronAPIsExist
    /\ dialog = NoDialog
    /\ nSelections < MaxSelections
    /\ nSelections' = nSelections + 1
    /\ uploadType' = type
    /\ dialog' = [kind |-> "desktop", type |-> type]
    /\ UNCHANGED <<envVars, propVars, fileVars, effectPending, toUploadFiles,
                   isPendingDesktopUpload, pendingDesktopUploadCollectionName,
                   zipPaths, modalVars, batchVars, importSuggestion,
                   pendingFetch, serverCollections, pendingFiles,
                   resumeAttempts, reloaded, cancelCalls>>

(***************************************************************************)
(* The effect on the three props: it copies one of them into webFiles.     *)
(* setWebFiles with the array webFiles already is leaves the state alone.  *)
(***************************************************************************)
PropsEffect(type, fo, fi, dd, changed) ==
    LET src == IF type = FOLDERS /\ Len(fo) > 0 THEN "folder"
               ELSE IF type = FILES /\ Len(fi) > 0 THEN "file"
               ELSE IF Len(dd) > 0 THEN "dnd"
               ELSE "none"
        val == CASE src = "folder" -> fo
                 [] src = "file" -> fi
                 [] OTHER -> dd
    IN IF src = "none" \/ (src = webFilesSrc /\ src # changed)
       THEN UNCHANGED <<webFiles, webFilesSrc, effectPending>>
       ELSE /\ webFiles' = val
            /\ webFilesSrc' = src
            /\ effectPending' = TRUE

WebPickerCandidates(type) ==
    CASE type = FILES -> {<<>>, Loose}
      [] type = FOLDERS -> {<<>>, SingleFolder, Nested}
      [] OTHER -> {<<>>}

(***************************************************************************)
(* handleUpload(type) without the Electron APIs: handleWebUpload sets the  *)
(* upload type and opens the browser's picker (for zips, a dialog that     *)
(* offers the desktop app) and returns.                                    *)
(***************************************************************************)
handleWebUpload(type) ==
    /\ justEnded' = NoTask
    /\ ~reloaded /\ ~effectPending
    /\ ~ElectronAPIsExist
    /\ dialog = NoDialog
    /\ nSelections < MaxSelections
    /\ nSelections' = nSelections + 1
    /\ uploadType' = type
    /\ dialog' = IF type \in {FILES, FOLDERS}
                 THEN [kind |-> "web", type |-> type]
                 ELSE dialog
    /\ UNCHANGED <<envVars, propVars, fileVars, effectPending, toUploadFiles,
                   isPendingDesktopUpload, pendingDesktopUploadCollectionName,
                   zipPaths, modalVars, batchVars, importSuggestion,
                   pendingFetch, serverCollections, pendingFiles,
                   resumeAttempts, reloaded, cancelCalls>>

(***************************************************************************)
(* The picker is answered: what the user picked arrives in                 *)
(* props.fileSelectorFiles or props.folderSelectorFiles in a later render, *)
(* and the effect on the props runs (l.147-165).  Nothing arrives when the *)
(* picker is cancelled.                                                    *)
(***************************************************************************)
PickerDelivers ==
    /\ justEnded' = NoTask
    /\ ~reloaded /\ ~effectPending
    /\ dialog.kind = "web"
    /\ dialog' = NoDialog
    /\ \E files \in WebPickerCandidates(dialog.type) :
        IF Len(files) = 0
        THEN UNCHANGED <<propVars, webFiles, webFilesSrc, effectPending>>
        ELSE /\ UNCHANGED dragAndDropFiles
             /\ IF dialog.type = FILES
                THEN /\ fileSelectorFiles' = files
                     /\ UNCHANGED folderSelectorFiles
                     /\ PropsEffect(uploadType, folderSelectorFiles, files,
                                    dragAndDropFiles, "file")
                ELSE /\ folderSelectorFiles' = files
                     /\ UNCHANGED fileSelectorFiles
                     /\ PropsEffect(uploadType, files, fileSelectorFiles,
                                    dragAndDropFiles, "folder")
    /\ UNCHANGED <<envVars, sharedFiles, electronFiles, electronSrc,
                   queuedElectronFiles, refVars, modalVars, batchVars,
                   importSuggestion, pendingFetch, serverCollections,
                   nSelections, pendingFiles, resumeAttempts, reloaded,
                   cancelCalls>>

\* The user drops files on the page.
DragAndDrop ==
    /\ justEnded' = NoTask
    /\ ~reloaded /\ ~effectPending
    /\ nSelections < MaxSelections
    /\ \E files \in {Loose} :
        /\ dragAndDropFiles' = files
        /\ PropsEffect(uploadType, folderSelectorFiles, fileSelectorFiles,
                       files, "dnd")
    /\ nSelections' = nSelections + 1
    /\ UNCHANGED <<envVars, folderSelectorFiles, fileSelectorFiles,
                   sharedFiles, electronFiles, electronSrc,
                   queuedElectronFiles, refVars, modalVars, batchVars,
                   importSuggestion, pendingFetch, dialog, serverCollections,
                   pendingFiles, resumeAttempts, reloaded, cancelCalls>>

\* Files shared to the web app arrive in appContext.sharedFiles.
FilesShared ==
    /\ justEnded' = NoTask
    /\ ~reloaded /\ ~effectPending
    /\ nSelections < MaxSelections
    /\ ~isElectron
    /\ sharedFiles = <<>>
    /\ sharedFiles' = Loose
    /\ effectPending' = TRUE
    /\ nSelections' = nSelections + 1
    /\ UNCHANGED <<envVars, propVars, webFiles, webFilesSrc, electronFiles,
                   electronSrc, queuedElectronFiles,
                   refVars, modalVars, batchVars, importSuggestion,
                   pendingFetch, dialog, serverCollections, pendingFiles,
                   resumeAttempts, reloaded, cancelCalls>>

(***************************************************************************)
(* setElectronFiles(files) from a promise continuation.  When the          *)
(* selection effect of the last render has not run yet, it runs first,     *)
(* with the electronFiles of that render; the new files wait behind it     *)
(* and become the state only afterwards.                                   *)
(***************************************************************************)
setElectronFiles(files, src) ==
    IF effectPending
    THEN /\ queuedElectronFiles' = <<[files |-> files, src |-> src]>>
         /\ UNCHANGED <<electronFiles, electronSrc, effectPending>>
    ELSE /\ electronFiles' = files
         /\ electronSrc' = src
         /\ effectPending' = TRUE
         /\ UNCHANGED queuedElectronFiles

DesktopCandidates(type) ==
    CASE type = FILES -> {<<>>, Loose}
      [] type = FOLDERS -> {<<>>, SingleFolder, Nested}
      [] OTHER -> {<<>>, Nested}

\* handleDesktopUpload after the native dialog has answered.
handleDesktopUpload ==
    /\ justEnded' = NoTask
    /\ ~reloaded
    /\ dialog.kind = "desktop"
    /\ \E files \in DesktopCandidates(dialog.type) :
        /\ zipPaths' = IF dialog.type = ZIPS THEN TRUE ELSE zipPaths
        /\ IF Len(files) > 0
           THEN setElectronFiles(files, dialog.type)
           ELSE UNCHANGED <<electronFiles, electronSrc, queuedElectronFiles,
                            effectPending>>
    /\ dialog' = NoDialog
    /\ UNCHANGED <<envVars, propVars, sharedFiles, webFiles, webFilesSrc,
                   toUploadFiles, isPendingDesktopUpload,
                   pendingDesktopUploadCollectionName, uploadType, modalVars,
                   batchVars, importSuggestion, pendingFetch,
                   serverCollections, nSelections, pendingFiles,
                   resumeAttempts, reloaded, cancelCalls>>

(***************************************************************************)
(* The mount effect's getPendingUploads().then(...) with                   *)
(* resumeDesktopUpload.                                                    *)
(***************************************************************************)
PendingNames == {Null, "P"}
PendingTypes == {FOLDERS, ZIPS}

resumeDesktopUpload ==
    /\ justEnded' = NoTask
    /\ ~reloaded
    /\ pendingFetch = "inflight"
    /\ pendingFetch' = "done"
    /\ \E files \in {<<>>, Nested}, name \in PendingNames,
          type \in PendingTypes :
        /\ pendingFiles' = files
        /\ IF Len(files) > 0
           THEN /\ isPendingDesktopUpload' = TRUE
                /\ pendingDesktopUploadCollectionName' = name
                /\ uploadType' = type
                /\ setElectronFiles(files, "pending")
           ELSE UNCHANGED <<isPendingDesktopUpload,
                            pendingDesktopUploadCollectionName, uploadType,
                            electronFiles, electronSrc, queuedElectronFiles,
                            effectPending>>
    /\ UNCHANGED <<envVars, propVars, sharedFiles, webFiles, webFilesSrc,
                   toUploadFiles, zipPaths, modalVars, batchVars,
                   importSuggestion, dialog, serverCollections, nSelections,
                   resumeAttempts, reloaded, cancelCalls>>

(***************************************************************************)
(* preUploadAction up to its await of props.syncWithRemote(true, true),    *)
(* for a run that starts now.  The record of the run notes whether         *)
(* another run had not ended at this moment.                               *)
(***************************************************************************)
Unended(t) == t.pc # "done"

preUploadAction(task) ==
    /\ Len(tasks) < MaxTasks
    /\ justEnded' = NoTask
    /\ tasks' = Append(tasks,
          [task EXCEPT !.preparedInFlight =
              \E i \in 1..Len(tasks) : Unended(tasks[i])])
    /\ mgr' = prepareForNewUpload(mgr)
    /\ uploadProgressView' = TRUE
    /\ uploadInProgress' = TRUE
    /\ collectionSelector' = ClosedSelector

uploadFilesToExistingCollection(coll) ==
    preUploadAction(NewTask("existing", Null, Null, coll, FALSE))

uploadFilesToNewCollections(strategy, name, resumed) ==
    preUploadAction(NewTask("new", strategy, name, 0, resumed))

(***************************************************************************)
(* uploadToSingleNewCollection and showCollectionCreateModal.  selAfter    *)
(* is the selector as the caller leaves it, answersAfter the number of     *)
(* names the namer has submitted once this call has started an upload.     *)
(***************************************************************************)
\* Variant: the name is not tested.
uploadToSingleNewCollectionAnyName(name, resumed, selAfter, answersAfter) ==
    /\ uploadFilesToNewCollections(SINGLE_COLLECTION, name, resumed)
    /\ namerAnswers' = answersAfter
    /\ UNCHANGED collectionNamer

uploadToSingleNewCollection(name, resumed, selAfter, answersAfter) ==
    IF Truthy(name)
    THEN /\ uploadFilesToNewCollections(SINGLE_COLLECTION, name, resumed)
         /\ namerAnswers' = answersAfter
         /\ UNCHANGED collectionNamer
    ELSE /\ collectionNamer' = TRUE
         /\ namerAnswers' = 0
         /\ collectionSelector' = selAfter
         /\ UNCHANGED batchVars

\* Variant: the default album name of a first upload is not filled in.
handleCollectionCreationAndUploadNoDefault(sugg) ==
    IF isPendingDesktopUpload
    THEN /\ isPendingDesktopUpload' = FALSE
         /\ resumeAttempts' = resumeAttempts + 1
         /\ importSuggestion' = sugg
         /\ IF Truthy(pendingDesktopUploadCollectionName)
            THEN /\ uploadToSingleNewCollection(
                        pendingDesktopUploadCollectionName, TRUE,
                        collectionSelector, namerAnswers)
                 /\ pendingDesktopUploadCollectionName' = Null
            ELSE /\ uploadFilesToNewCollections(COLLECTION_PER_FOLDER, Null,
                                                TRUE)
                 /\ UNCHANGED <<pendingDesktopUploadCollectionName,
                                collectionNamer, namerAnswers>>
         /\ UNCHANGED <<choiceModalView, choiceAnswers>>
    ELSE IF isElectron /\ uploadType = ZIPS
    THEN /\ uploadFilesToNewCollections(COLLECTION_PER_FOLDER, Null, FALSE)
         /\ importSuggestion' = sugg
         /\ UNCHANGED <<isPendingDesktopUpload, resumeAttempts,
                        pendingDesktopUploadCollectionName, collectionNamer,
                        namerAnswers, choiceModalView, choiceAnswers>>
    ELSE LET root == sugg.rootFolderName
         IN /\ importSuggestion' = [sugg EXCEPT !.rootFolderName = root]
            /\ collectionSelector' =
                 [open |-> TRUE,
                  showNextModal |-> IF sugg.hasNestedFolders THEN "choice"
                                    ELSE "single",
                  rootFolderName |-> root, answers |-> 0]
            /\ UNCHANGED <<isPendingDesktopUpload, resumeAttempts,
                           pendingDesktopUploadCollectionName,
                           collectionNamer, namerAnswers, choiceModalView,
                           choiceAnswers, batchVars>>

\* Variant: the resumed batch is grouped per folder whatever name was
\* recorded with it.
handleCollectionCreationAndUploadNoName(sugg) ==
    IF isPendingDesktopUpload
    THEN /\ isPendingDesktopUpload' = FALSE
         /\ resumeAttempts' = resumeAttempts + 1
         /\ importSuggestion' = sugg
         /\ uploadFilesToNewCollections(COLLECTION_PER_FOLDER, Null, TRUE)
         /\ pendingDesktopUploadCollectionName' = Null
         /\ UNCHANGED <<collectionNamer, namerAnswers, choiceModalView,
                        choiceAnswers>>
    ELSE IF isElectron /\ uploadType = ZIPS
    THEN /\ uploadFilesToNewCollections(COLLECTION_PER_FOLDER, Null, FALSE)
         /\ importSuggestion' = sugg
         /\ UNCHANGED <<isPendingDesktopUpload, resumeAttempts,
                        pendingDesktopUploadCollectionName, collectionNamer,
                        namerAnswers, choiceModalView, choiceAnswers>>
    ELSE LET root == IF isFirstUpload /\ ~Truthy(sugg.rootFolderName)
                     THEN FIRST_ALBUM_NAME
                     ELSE sugg.rootFolderName
         IN /\ importSuggestion' = [sugg EXCEPT !.rootFolderName = root]
            /\ collectionSelector' =
                 [open |-> TRUE,
                  showNextModal |-> IF sugg.hasNestedFolders THEN "choice"
                                    ELSE "single",
                  rootFolderName |-> root, answers |-> 0]
            /\ UNCHANGED <<isPendingDesktopUpload, resumeAttempts,
                           pendingDesktopUploadCollectionName,
                           collectionNamer, namerAnswers, choiceModalView,
                           choiceAnswers, batchVars>>

(***************************************************************************)
(* handleCollectionCreationAndUpload(importSuggestion, isFirstUpload).     *)
(* The suggestion object is the one given to setImportSuggestion, so the   *)
(* default album name written into it is seen by the state as well.        *)
(***************************************************************************)
handleCollectionCreationAndUpload(sugg) ==
    IF isPendingDesktopUpload
    THEN /\ isPendingDesktopUpload' = FALSE
         /\ resumeAttempts' = resumeAttempts + 1
         /\ importSuggestion' = sugg
         /\ IF Truthy(pendingDesktopUploadCollectionName)
            THEN /\ uploadToSingleNewCollection(
                        pendingDesktopUploadCollectionName, TRUE,
                        collectionSelector, namerAnswers)
                 /\ pendingDesktopUploadCollectionName' = Null
            ELSE /\ uploadFilesToNewCollections(COLLECTION_PER_FOLDER, Null,
                                                TRUE)
                 /\ UNCHANGED <<pendingDesktopUploadCollectionName,
                                collectionNamer, namerAnswers>>
         /\ UNCHANGED <<choiceModalView, choiceAnswers>>
    ELSE IF isElectron /\ uploadType = ZIPS
    THEN /\ uploadFilesToNewCollections(COLLECTION_PER_FOLDER, Null, FALSE)
         /\ importSuggestion' = sugg
         /\ UNCHANGED <<isPendingDesktopUpload, resumeAttempts,
                        pendingDesktopUploadCollectionName, collectionNamer,
                        namerAnswers, choiceModalView, choiceAnswers>>
    ELSE LET root == IF isFirstUpload /\ ~Truthy(sugg.rootFolderName)
                     THEN FIRST_ALBUM_NAME
                     ELSE sugg.rootFolderName
         IN /\ importSuggestion' = [sugg EXCEPT !.rootFolderName = root]
            /\ collectionSelector' =
                 [open |-> TRUE,
                  showNextModal |-> IF sugg.hasNestedFolders THEN "choice"
                                    ELSE "single",
                  rootFolderName |-> root, answers |-> 0]
            /\ UNCHANGED <<isPendingDesktopUpload, resumeAttempts,
                           pendingDesktopUploadCollectionName,
                           collectionNamer, namerAnswers, choiceModalView,
                           choiceAnswers, batchVars>>

(***************************************************************************)
(* The effect on [webFiles, appContext.sharedFiles, electronFiles].        *)
(***************************************************************************)
\* Variant: the effect does not look at props.uploadInProgress.
SelectionTakenIgnoringProgress ==
    /\ Len(electronFiles) > 0 \/ Len(webFiles) > 0 \/ Len(sharedFiles) > 0
    /\ ~canvasBlocked

\* The effect goes on to take the selection: there is one, no upload is in
\* progress and the canvas is not blocked.
SelectionTaken ==
    /\ Len(electronFiles) > 0 \/ Len(webFiles) > 0 \/ Len(sharedFiles) > 0
    /\ ~uploadInProgress
    /\ ~canvasBlocked

\* What electronFiles is once the effect has run without calling
\* setElectronFiles: the files that were waiting behind it, if any.
EffectLeavesElectronFiles ==
    /\ queuedElectronFiles' = <<>>
    /\ IF queuedElectronFiles = <<>>
       THEN UNCHANGED <<electronFiles, electronSrc>>
       ELSE /\ electronFiles' = queuedElectronFiles[1].files
            /\ electronSrc' = queuedElectronFiles[1].src

\* setElectronFiles([]) of the effect comes after the call that was
\* waiting behind it, and is the one that stays.
EffectClearsElectronFiles ==
    /\ queuedElectronFiles' = <<>>
    /\ electronFiles' = <<>>
    /\ electronSrc' = "none"

SelectionEffect ==
    /\ justEnded' = NoTask
    /\ ~reloaded
    /\ effectPending
    /\ IF SelectionTaken
       THEN /\ effectPending' = TRUE
            /\ IF Len(webFiles) > 0
               THEN /\ toUploadFiles' = webFiles
                    /\ webFiles' = <<>>
                    /\ webFilesSrc' = "none"
                    /\ EffectLeavesElectronFiles
                    /\ UNCHANGED sharedFiles
               ELSE IF Len(sharedFiles) > 0
               THEN /\ toUploadFiles' = sharedFiles
                    /\ sharedFiles' = <<>>
                    /\ EffectLeavesElectronFiles
                    /\ UNCHANGED <<webFiles, webFilesSrc>>
               ELSE /\ toUploadFiles' = electronFiles
                    /\ EffectClearsElectronFiles
                    /\ UNCHANGED <<webFiles, webFilesSrc, sharedFiles>>
            /\ handleCollectionCreationAndUpload(
                   getImportSuggestion(uploadType, toUploadFiles'))
       ELSE /\ effectPending' = (queuedElectronFiles # <<>>)
            /\ EffectLeavesElectronFiles
            /\ UNCHANGED <<sharedFiles, webFiles, webFilesSrc, toUploadFiles,
                           isPendingDesktopUpload,
                           pendingDesktopUploadCollectionName, modalVars,
                           batchVars, importSuggestion, resumeAttempts>>
    /\ UNCHANGED <<envVars, propVars, uploadType, zipPaths, pendingFetch,
                   dialog, serverCollections, nSelections, pendingFiles,
                   reloaded, cancelCalls>>

(***************************************************************************)
(* The collection selector.  Its callback uploads to an existing album,    *)
(* its "new album" entry calls showNextModal.  The Uploader closes the     *)
(* selector in preUploadAction only.  A modal is clicked at most           *)
(* MaxAnswers times between its opening and its closing.                   *)
(***************************************************************************)
Answered(sel) == [sel EXCEPT !.answers = @ + 1]

SelectorPickExisting ==
    /\ justEnded' = NoTask
    /\ ~reloaded /\ ~effectPending
    /\ collectionSelector.open
    /\ collectionSelector.answers < MaxAnswers
    /\ \E c \in 1..Len(serverCollections) :
         uploadFilesToExistingCollection(c)
    /\ UNCHANGED <<envVars, propVars, fileVars, effectPending, refVars,
                   choiceModalView, choiceAnswers, collectionNamer,
                   namerAnswers, miscVars>>

SelectorNewAlbum ==
    /\ justEnded' = NoTask
    /\ ~reloaded /\ ~effectPending
    /\ collectionSelector.open
    /\ collectionSelector.answers < MaxAnswers
    /\ IF collectionSelector.showNextModal = "choice"
       THEN /\ choiceModalView' = TRUE
            /\ choiceAnswers' = 0
            /\ collectionSelector' = Answered(collectionSelector)
            /\ UNCHANGED <<collectionNamer, namerAnswers, batchVars>>
       ELSE /\ uploadToSingleNewCollection(collectionSelector.rootFolderName,
                    FALSE, Answered(collectionSelector), namerAnswers)
            /\ UNCHANGED <<choiceModalView, choiceAnswers>>
    /\ UNCHANGED <<envVars, propVars, fileVars, effectPending, refVars,
                   miscVars>>

(***************************************************************************)
(* UploadStrategyChoiceModal: uploadToSingleCollection,                    *)
(* uploadToMultipleCollection and onClose.  The two options leave          *)
(* choiceModalView alone; the modal closes through onClose.                *)
(***************************************************************************)
ChoiceSingleCollection ==
    /\ justEnded' = NoTask
    /\ ~reloaded /\ ~effectPending
    /\ choiceModalView
    /\ choiceAnswers < MaxAnswers
    /\ choiceAnswers' = choiceAnswers + 1
    /\ UNCHANGED choiceModalView
    /\ uploadToSingleNewCollection(importSuggestion.rootFolderName, FALSE,
                                   collectionSelector, namerAnswers)
    /\ UNCHANGED <<envVars, propVars, fileVars, effectPending, refVars,
                   miscVars>>

ChoiceMultipleCollection ==
    /\ justEnded' = NoTask
    /\ ~reloaded /\ ~effectPending
    /\ choiceModalView
    /\ choiceAnswers < MaxAnswers
    /\ choiceAnswers' = choiceAnswers + 1
    /\ UNCHANGED choiceModalView
    /\ uploadFilesToNewCollections(COLLECTION_PER_FOLDER, Null, FALSE)
    /\ UNCHANGED <<envVars, propVars, fileVars, effectPending, refVars,
                   collectionNamer, namerAnswers, miscVars>>

ChoiceModalClose ==
    /\ justEnded' = NoTask
    /\ ~reloaded /\ ~effectPending
    /\ choiceModalView
    /\ choiceModalView' = FALSE
    /\ choiceAnswers' = 0
    /\ UNCHANGED <<envVars, propVars, fileVars, effectPending, refVars,
                   collectionSelector, collectionNamer, namerAnswers,
                   batchVars, miscVars>>

(***************************************************************************)
(* The collection namer calls uploadToSingleNewCollection with the name    *)
(* typed by the user.  The Uploader does nothing else to the namer; an     *)
(* empty name makes it call setCollectionNamerAttributes again.            *)
(***************************************************************************)
TypedNames == {"N", ""}

NamerSubmit ==
    /\ justEnded' = NoTask
    /\ ~reloaded /\ ~effectPending
    /\ collectionNamer
    /\ namerAnswers < MaxAnswers
    /\ \E name \in TypedNames :
         uploadToSingleNewCollection(name, FALSE, collectionSelector,
                                     namerAnswers + 1)
    /\ UNCHANGED <<envVars, propVars, fileVars, effectPending, refVars,
                   choiceModalView, choiceAnswers, miscVars>>

(***************************************************************************)
(* Continuations of the upload functions.  Each one follows the reply to   *)
(* a network or IPC call made by the function; the effects React has       *)
(* scheduled by then run first.                                            *)
(***************************************************************************)
SetTask(t, rec) ==
    /\ tasks' = [tasks EXCEPT ![t] = rec]
    /\ justEnded' = NoTask

EndTask(t, rec) ==
    /\ tasks' = [tasks EXCEPT ![t] = Forgotten]
    /\ justEnded' = rec

Logged(task, entries) == [task EXCEPT !.log = @ \o entries]

\* toUploadFiles.current.map((file, index) => ({file, localID: index, ...}))
ItemsForExisting(files, coll) ==
    [i \in 1..Len(files) |->
        [file |-> files[i], localID |-> i - 1, collectionID |-> coll]]

\* Variant: the index restarts at 0 for every group.
ItemsForGroupIndexPerGroup(files, index, coll) ==
    [i \in 1..Len(files) |->
        [file |-> files[i], localID |-> i - 1, collectionID |-> coll]]

\* Variant: every item carries the id of the first remote album.
ItemsForGroupFirstAlbum(files, index, coll) ==
    [i \in 1..Len(files) |->
        [file |-> files[i], localID |-> index + i - 1, collectionID |-> 1]]

\* files.map((file) => ({localID: index++, collectionID, file}))
ItemsForGroup(files, index, coll) ==
    [i \in 1..Len(files) |->
        [file |-> files[i], localID |-> index + i - 1, collectionID |-> coll]]

\* Variant: the single collection receives the first file only.
collectionNameToFilesMapFirstOnly(strategy, name, files) ==
    IF strategy = SINGLE_COLLECTION
    THEN <<[name |-> name, files |-> SubSeq(files, 1, 1)]>>
    ELSE groupFilesBasedOnParentFolder(files)

\* The grouping map of uploadFilesToNewCollections.
collectionNameToFilesMap(strategy, name, files) ==
    IF strategy = SINGLE_COLLECTION
    THEN <<[name |-> name, files |-> files]>>
    ELSE groupFilesBasedOnParentFolder(files)

(***************************************************************************)
(* showUserFacingError(err.message).  NotificationAttributes is the        *)
(* notification built by the switch; showUserFacingError is the call it    *)
(* ends in; ShowError is its effect on what the run has shown.             *)
(***************************************************************************)
NoAction == [text |-> Null, callback |-> Null]

\* Variant: the storage case falls through to the default notification.
NotificationAttributesNoQuotaCase(err) ==
    CASE err = SUBSCRIPTION_EXPIRED ->
           [variant |-> "danger", message |-> "SUBSCRIPTION_EXPIRED",
            action |-> [text |-> "UPGRADE_NOW",
                        callback |-> "showPlanSelectorModal"]]
      [] OTHER ->
           [variant |-> "danger", message |-> "UNKNOWN_ERROR",
            action |-> NoAction]

NotificationAttributes(err) ==
    CASE err = SUBSCRIPTION_EXPIRED ->
           [variant |-> "danger", message |-> "SUBSCRIPTION_EXPIRED",
            action |-> [text |-> "UPGRADE_NOW",
                        callback |-> "showPlanSelectorModal"]]
      [] err = STORAGE_QUOTA_EXCEEDED ->
           [variant |-> "danger", message |-> "STORAGE_QUOTA_EXCEEDED",
            action |-> [text |-> "RENEW_NOW",
                        callback |-> "showPlanSelectorModal"]]
      [] OTHER ->
           [variant |-> "danger", message |-> "UNKNOWN_ERROR",
            action |-> NoAction]

showUserFacingError(err) ==
    IF err = SESSION_EXPIRED
    THEN "showSessionExpiredMessage"
    ELSE "notify:" \o NotificationAttributes(err).message

ShowError(task, err) ==
    LET shown == Logged(task, <<showUserFacingError(err)>>) IN
    IF err = SESSION_EXPIRED
    THEN [shown EXCEPT !.sessionExpiredShown = @ + 1]
    ELSE [shown EXCEPT
            !.notifications = Append(@, NotificationAttributes(err))]

(***************************************************************************)
(* uploadFiles from its start to its first await: the desktop persists     *)
(* the target first, everything else calls queueFilesForUpload at once.    *)
(***************************************************************************)
CallQueue(task) ==
    [Logged(task, <<"queueFilesForUpload">>) EXCEPT
        !.pc = "queue", !.queued = TRUE]

uploadFiles(task) ==
    IF isElectron /\ ~isPendingDesktopUpload
    THEN [Logged(task, <<"setToUploadCollection">>) EXCEPT
            !.pc = "setToUploadCollection"]
    ELSE CallQueue(task)

StageAfter(task, m) ==
    IF task.pc = "queue" THEN queueFilesForUpload(m, task.items) ELSE m

\* Variant: the caller's catch reports the error a second time.
UploadFilesFailedReportedTwice(t, err) ==
    /\ EndTask(t, [ShowError(Logged(ShowError(tasks[t], err),
                                    <<"closeUploadProgress",
                                      "postUploadAction">>), err)
                     EXCEPT !.pc = "done", !.ended = "uploadFailed",
                            !.rejectedWith = err])
    /\ uploadProgressView' = FALSE
    /\ uploadInProgress' = FALSE

\* catch and finally of uploadFiles, then the catch of its caller.
UploadFilesFailed(t, err) ==
    /\ EndTask(t, [Logged(ShowError(tasks[t], err),
                           <<"closeUploadProgress", "postUploadAction">>)
                     EXCEPT !.pc = "done", !.ended = "uploadFailed",
                            !.rejectedWith = err])
    /\ uploadProgressView' = FALSE
    /\ uploadInProgress' = FALSE

(***************************************************************************)
(* props.syncWithRemote(true, true) of preUploadAction settles.            *)
(***************************************************************************)
PreSyncResolved(t) ==
    /\ ~reloaded /\ ~effectPending
    /\ tasks[t].pc = "preSync"
    /\ LET task == Logged(tasks[t], <<"preSyncDone">>) IN
       CASE task.kind = "existing" ->
              LET next == uploadFiles(
                     [task EXCEPT
                        !.batch = toUploadFiles,
                        !.items = ItemsForExisting(toUploadFiles,
                                                   task.collection),
                        !.collections = <<task.collection>>])
              IN /\ SetTask(t, next)
                 /\ mgr' = StageAfter(next, mgr)
         [] task.kind = "new" ->
              /\ SetTask(t, [Logged(task, <<"syncCollections">>) EXCEPT
                    !.batch = toUploadFiles,
                    !.map = collectionNameToFilesMap(task.strategy,
                               task.collectionName, toUploadFiles),
                    !.nSyncCollections = @ + 1,
                    !.pc = "syncCollections"])
              /\ UNCHANGED mgr
         [] OTHER ->
              /\ SetTask(t, [Logged(task, <<"retryFailedFiles">>) EXCEPT
                    !.items = mgr.failedFiles,
                    !.queued = TRUE,
                    !.pc = "retry"])
              /\ mgr' = queueFilesForUpload(mgr, mgr.failedFiles)
    /\ UNCHANGED <<envVars, propVars, fileVars, effectPending, refVars,
                   modalVars, uploadProgressView, uploadInProgress, miscVars>>

PreSyncRejected(t, err) ==
    /\ ~reloaded /\ ~effectPending
    /\ tasks[t].pc = "preSync"
    /\ IF tasks[t].kind = "retry"
       THEN /\ EndTask(t, [Logged(ShowError(tasks[t], err),
                                  <<"closeUploadProgress",
                                    "postUploadAction">>)
                            EXCEPT !.pc = "done", !.ended = "preSyncFailed",
                                   !.rejectedWith = err])
            /\ uploadProgressView' = FALSE
            /\ uploadInProgress' = FALSE
       ELSE /\ EndTask(t, [tasks[t] EXCEPT
                              !.pc = "done", !.ended = "preSyncFailed"])
            /\ UNCHANGED <<uploadProgressView, uploadInProgress>>
    /\ UNCHANGED <<envVars, propVars, fileVars, effectPending, refVars,
                   modalVars, mgr, miscVars>>

(***************************************************************************)
(* services/collectionService: createAlbum(name, existing) returns the     *)
(* existing album of that name, otherwise asks the server for a new one.   *)
(***************************************************************************)
ExistingId(name, existing) ==
    IF \E i \in 1..Len(existing) : existing[i] = name
    THEN CHOOSE i \in 1..Len(existing) :
            /\ existing[i] = name
            /\ \A j \in 1..(i - 1) : existing[j] # name
    ELSE 0

createAlbum(name, existing, server) ==
    IF ExistingId(name, existing) # 0
    THEN [id |-> ExistingId(name, existing), server |-> server]
    ELSE [id |-> Len(server) + 1, server |-> Append(server, name)]

\* Variant: the inner catch does not rethrow, and the run goes on to
\* uploadFiles with the groups resolved so far.
AlbumCreationFailedNoRethrow(t) ==
    /\ SetTask(t, [uploadFiles(Logged(tasks[t],
                                      <<"closeUploadProgress",
                                        "dialog:CREATE_ALBUM_FAILED">>))
                     EXCEPT !.albumRejected = TRUE,
                            !.albumFailedDialogs = @ + 1])
    /\ uploadProgressView' = FALSE

\* The inner catch of uploadFilesToNewCollections, then the outer one.
AlbumCreationFailed(t) ==
    /\ EndTask(t, [Logged(tasks[t], <<"closeUploadProgress",
                                      "dialog:CREATE_ALBUM_FAILED">>)
                     EXCEPT !.pc = "done", !.ended = "albumFailed",
                            !.albumRejected = TRUE,
                            !.albumFailedDialogs = @ + 1])
    /\ uploadProgressView' = FALSE

\* Variant: the loop ends after its first iteration.
LoopFromFirstGroupOnly(task, gi) ==
    IF gi <= Len(task.map) /\ gi <= 1
    THEN [Logged(task, <<"createAlbum">>) EXCEPT
            !.gi = gi,
            !.albumCalls = Append(@, task.map[gi].name),
            !.pc = "createAlbum"]
    ELSE uploadFiles(task)

\* Variant: the loop walks the map from its last entry to its first.
LoopFromLastToFirst(task, gi) ==
    IF gi <= Len(task.map)
    THEN [Logged(task, <<"createAlbum">>) EXCEPT
            !.gi = gi,
            !.albumCalls = Append(@, task.map[Len(task.map) + 1 - gi].name),
            !.pc = "createAlbum"]
    ELSE uploadFiles(task)

\* The for loop from the head of iteration gi: createAlbum is called for
\* the next group, or the loop is over and uploadFiles starts.
LoopFrom(task, gi) ==
    IF gi <= Len(task.map)
    THEN [Logged(task, <<"createAlbum">>) EXCEPT
            !.gi = gi,
            !.albumCalls = Append(@, task.map[gi].name),
            !.pc = "createAlbum"]
    ELSE uploadFiles(task)

SyncCollectionsResolved(t) ==
    /\ ~reloaded /\ ~effectPending
    /\ tasks[t].pc = "syncCollections"
    /\ LET next == LoopFrom([tasks[t] EXCEPT !.existing = serverCollections],
                            1)
       IN /\ SetTask(t, next)
          /\ mgr' = StageAfter(next, mgr)
    /\ UNCHANGED <<envVars, propVars, fileVars, effectPending, refVars,
                   modalVars, uploadProgressView, uploadInProgress, miscVars>>

SyncCollectionsRejected(t) ==
    /\ ~reloaded /\ ~effectPending
    /\ tasks[t].pc = "syncCollections"
    /\ AlbumCreationFailed(t)
    /\ UNCHANGED <<envVars, propVars, fileVars, effectPending, refVars,
                   modalVars, mgr, uploadInProgress, miscVars>>

CreateAlbumResolved(t) ==
    /\ ~reloaded /\ ~effectPending
    /\ tasks[t].pc = "createAlbum"
    /\ LET task == tasks[t]
           group == task.map[task.gi]
           res == createAlbum(group.name, task.existing, serverCollections)
           next == LoopFrom(
               [task EXCEPT
                  !.collections = Append(@, res.id),
                  !.albumResults = Append(@, res.id),
                  !.items = @ \o ItemsForGroup(group.files, Len(task.items),
                                               res.id)],
               task.gi + 1)
       IN /\ SetTask(t, next)
          /\ serverCollections' = res.server
          /\ mgr' = StageAfter(next, mgr)
    /\ UNCHANGED <<envVars, propVars, fileVars, effectPending, refVars,
                   modalVars, uploadProgressView, uploadInProgress,
                   importSuggestion, pendingFetch, dialog, nSelections,
                   pendingFiles, resumeAttempts, reloaded, cancelCalls>>

CreateAlbumRejected(t) ==
    /\ ~reloaded /\ ~effectPending
    /\ tasks[t].pc = "createAlbum"
    /\ AlbumCreationFailed(t)
    /\ UNCHANGED <<envVars, propVars, fileVars, effectPending, refVars,
                   modalVars, mgr, uploadInProgress, miscVars>>

(***************************************************************************)
(* uploadFiles on the desktop: ImportService.setToUploadCollection, then   *)
(* setToUploadFiles for the zips (when present) and for the file paths.    *)
(***************************************************************************)
SetToUploadCollectionResolved(t) ==
    /\ ~reloaded /\ ~effectPending
    /\ tasks[t].pc = "setToUploadCollection"
    /\ IF zipPaths
       THEN SetTask(t, [Logged(tasks[t], <<"setToUploadFiles:ZIPS">>) EXCEPT
                           !.pc = "setToUploadZips"])
       ELSE SetTask(t, [Logged(tasks[t], <<"setToUploadFiles:FILES">>) EXCEPT
                           !.pc = "setToUploadFiles"])
    /\ UNCHANGED <<envVars, propVars, fileVars, effectPending, refVars,
                   modalVars, mgr, uploadProgressView, uploadInProgress,
                   miscVars>>

SetToUploadZipsResolved(t) ==
    /\ ~reloaded /\ ~effectPending
    /\ tasks[t].pc = "setToUploadZips"
    /\ zipPaths' = FALSE
    /\ SetTask(t, [Logged(tasks[t], <<"setToUploadFiles:FILES">>) EXCEPT
                      !.pc = "setToUploadFiles"])
    /\ UNCHANGED <<envVars, propVars, fileVars, effectPending, toUploadFiles,
                   isPendingDesktopUpload, pendingDesktopUploadCollectionName,
                   uploadType, modalVars, mgr, uploadProgressView,
                   uploadInProgress, miscVars>>

SetToUploadFilesResolved(t) ==
    /\ ~reloaded /\ ~effectPending
    /\ tasks[t].pc = "setToUploadFiles"
    /\ SetTask(t, CallQueue(tasks[t]))
    /\ mgr' = queueFilesForUpload(mgr, tasks[t].items)
    /\ UNCHANGED <<envVars, propVars, fileVars, effectPending, refVars,
                   modalVars, uploadProgressView, uploadInProgress, miscVars>>

PersistRejected(t, err) ==
    /\ ~reloaded /\ ~effectPending
    /\ tasks[t].pc \in {"setToUploadCollection", "setToUploadZips",
                        "setToUploadFiles"}
    /\ UploadFilesFailed(t, err)
    /\ UNCHANGED <<envVars, propVars, fileVars, effectPending, refVars,
                   modalVars, mgr, miscVars>>

(***************************************************************************)
(* uploadManager.queueFilesForUpload / retryFailedFiles at work: the       *)
(* items are processed one by one, each ending uploaded, skipped as        *)
(* already uploaded, or failed.  The call resolves when all items are      *)
(* processed; a rejection carries a batch-fatal error.                     *)
(***************************************************************************)
FileProcessed(t) ==
    /\ ~reloaded /\ ~effectPending
    /\ tasks[t].pc \in {"queue", "retry"}
    /\ tasks[t].processed < Len(tasks[t].items)
    /\ LET task == tasks[t]
           item == task.items[task.processed + 1] IN
       /\ \E result \in ResultsAfter(mgr) :
            mgr' = fileProcessed(mgr, item, result)
       /\ SetTask(t, [task EXCEPT !.processed = @ + 1])
    /\ UNCHANGED <<envVars, propVars, fileVars, effectPending, refVars,
                   modalVars, uploadProgressView, uploadInProgress, miscVars>>

\* Variant: the finally block syncs but leaves uploadInProgress alone.
postUploadActionSyncOnly(t, task) ==
    /\ EndTask(t, [Logged(task, <<"postUploadAction">>) EXCEPT
                      !.pc = "done", !.ended = "uploaded"])
    /\ UNCHANGED uploadInProgress

\* finally of uploadFiles and of retryFailed
postUploadAction(t, task) ==
    /\ EndTask(t, [Logged(task, <<"postUploadAction">>) EXCEPT
                      !.pc = "done", !.ended = "uploaded"])
    /\ uploadInProgress' = FALSE

QueueResolved(t) ==
    /\ ~reloaded /\ ~effectPending
    /\ tasks[t].pc \in {"queue", "retry"}
    /\ tasks[t].processed = Len(tasks[t].items)
    /\ mgr' = [mgr EXCEPT !.stage = "FINISH"]
    /\ postUploadAction(t, Logged(tasks[t], <<"queueDone">>))
    /\ UNCHANGED <<envVars, propVars, fileVars, effectPending, refVars,
                   modalVars, uploadProgressView, miscVars>>

QueueRejected(t) ==
    /\ ~reloaded /\ ~effectPending
    /\ tasks[t].pc \in {"queue", "retry"}
    /\ \E err \in ErrorKinds : UploadFilesFailed(t, err)
    /\ UNCHANGED <<envVars, propVars, fileVars, effectPending, refVars,
                   modalVars, mgr, miscVars>>

(***************************************************************************)
(* The buttons of the progress view: retryFailed (callable once the        *)
(* manager has finished, whether or not an item failed), cancelUploads     *)
(* and onClose.                                                            *)
(***************************************************************************)
Counters(m) ==
    [finished |-> m.finished, total |-> m.total, succeeded |-> m.succeeded,
     failed |-> m.failed, skipped |-> m.skipped]

retryFailed ==
    /\ justEnded' = NoTask
    /\ ~reloaded /\ ~effectPending
    /\ uploadProgressView
    /\ mgr.stage = "FINISH"
    /\ preUploadAction([NewTask("retry", Null, Null, 0, FALSE) EXCEPT
                           !.failedBefore = mgr.failedFiles,
                           !.countersBefore = Counters(mgr)])
    /\ UNCHANGED <<envVars, propVars, fileVars, effectPending, refVars,
                   choiceModalView, choiceAnswers, collectionNamer,
                   namerAnswers, miscVars>>

\* cancelUploads without the branch for the desktop app.
cancelUploadsWebOnly ==
    /\ justEnded' = NoTask
    /\ ~reloaded /\ ~effectPending
    /\ uploadProgressView
    /\ uploadProgressView' = FALSE
    /\ uploadInProgress' = FALSE
    /\ reloaded' = TRUE
    /\ cancelCalls' = <<"closeUploadProgress", "setUploadInProgress(false)",
                        "Router.reload">>
    /\ UNCHANGED <<envVars, propVars, fileVars, effectPending, refVars,
                   modalVars, tasks, mgr, importSuggestion, pendingFetch,
                   dialog, serverCollections, nSelections, pendingFiles,
                   resumeAttempts>>

\* The "cancel" button of the progress view.  Router.reload() discards the
\* page: no step of this component follows it.
cancelUploads ==
    /\ justEnded' = NoTask
    /\ ~reloaded /\ ~effectPending
    /\ uploadProgressView
    /\ uploadProgressView' = FALSE
    /\ uploadInProgress' = FALSE
    /\ reloaded' = TRUE
    /\ cancelCalls' =
          <<"closeUploadProgress">>
          \o (IF isElectron THEN <<"cancelRemainingUploads">> ELSE <<>>)
          \o <<"setUploadInProgress(false)", "Router.reload">>
    /\ UNCHANGED <<envVars, propVars, fileVars, effectPending, refVars,
                   modalVars, tasks, mgr, importSuggestion, pendingFetch,
                   dialog, serverCollections, nSelections, pendingFiles,
                   resumeAttempts>>

closeUploadProgress ==
    /\ justEnded' = NoTask
    /\ ~reloaded /\ ~effectPending
    /\ uploadProgressView
    /\ uploadProgressView' = FALSE
    /\ UNCHANGED <<envVars, propVars, fileVars, effectPending, refVars,
                   modalVars, tasks, mgr, uploadInProgress, miscVars>>

Next ==
    \/ \E type \in UploadTypes : handleUpload(type)
    \/ \E type \in UploadTypes : handleWebUpload(type)
    \/ PickerDelivers
    \/ DragAndDrop
    \/ FilesShared
    \/ handleDesktopUpload
    \/ resumeDesktopUpload
    \/ SelectionEffect
    \/ SelectorPickExisting
    \/ SelectorNewAlbum
    \/ ChoiceSingleCollection
    \/ ChoiceMultipleCollection
    \/ ChoiceModalClose
    \/ NamerSubmit
    \/ retryFailed
    \/ cancelUploads
    \/ closeUploadProgress
    \/ \E t \in 1..Len(tasks) : PreSyncResolved(t)
    \/ \E t \in 1..Len(tasks), err \in ErrorKinds : PreSyncRejected(t, err)
    \/ \E t \in 1..Len(tasks) : SyncCollectionsResolved(t)
    \/ \E t \in 1..Len(tasks) : SyncCollectionsRejected(t)
    \/ \E t \in 1..Len(tasks) : CreateAlbumResolved(t)
    \/ \E t \in 1..Len(tasks) : CreateAlbumRejected(t)
    \/ \E t \in 1..Len(tasks) : SetToUploadCollectionResolved(t)
    \/ \E t \in 1..Len(tasks) : SetToUploadZipsResolved(t)
    \/ \E t \in 1..Len(tasks) : SetToUploadFilesResolved(t)
    \/ \E t \in 1..Len(tasks), err \in ErrorKinds : PersistRejected(t, err)
    \/ \E t \in 1..Len(tasks) : FileProcessed(t)
    \/ \E t \in 1..Len(tasks) : QueueResolved(t)
    \/ \E t \in 1..Len(tasks) : QueueRejected(t)

Spec == Init /\ [][Next]_vars

TypeOK ==
    /\ Len(tasks) <= MaxTasks
    /\ nSelections <= MaxSelections

(***************************************************************************)
(* Properties.                                                             *)
(***************************************************************************)
\* The runs whose record the state holds: those running, and the one that
\* ended in the last step.
Runs == Range(tasks) \cup {justEnded}

Live == {t \in 1..Len(tasks) : Unended(tasks[t])}

\* The runs whose queueFilesForUpload or retryFailedFiles call is unsettled.
Queueing == {t \in 1..Len(tasks) : tasks[t].pc \in {"queue", "retry"}}

GroupNames(map) == [i \in 1..Len(map) |-> map[i].name]

RECURSIVE FlattenFiles(_, _)
FlattenFiles(map, i) ==
    IF i > Len(map) THEN <<>> ELSE map[i].files \o FlattenFiles(map, i + 1)

ItemFiles(items) == [i \in 1..Len(items) |-> items[i].file]

\* C1: at most one upload batch is active: queueFilesForUpload or
\* retryFailedFiles is never invoked while an earlier invocation has
\* neither settled nor been cancelled.
C1_OneBatchActive == Cardinality(Queueing) <= 1

\* C2: prepareForNewUpload is never called while a batch is in flight,
\* that is while an earlier run that went through preUploadAction has not
\* ended.
C2_PrepareOnlyWhenIdle == \A r \in Runs : ~r.preparedInFlight

Uploads == {r \in Runs : r.kind \in {"existing", "new"}}

NewUploads == {r \in Runs : r.kind = "new"}

Distinct(seq) == \A i, j \in 1..Len(seq) : i # j => seq[i] # seq[j]

\* C3: a run that uploads to new collections invokes queueFilesForUpload
\* only after createAlbum has returned for every group, and every item
\* carries a collectionID returned by a createAlbum call of that run.
C3_AlbumsBeforeQueue ==
    \A r \in NewUploads :
        /\ \A i \in 1..Len(r.items) :
              r.items[i].collectionID \in Range(r.albumResults)
        /\ r.queued => /\ Len(r.map) >= 1
                       /\ Len(r.albumResults) = Len(r.map)

C3_Witness ==
    \E r \in NewUploads :
        /\ r.pc = "queue"
        /\ Len(r.map) = 2
        /\ Len(r.albumResults) = 2

\* C4: when syncCollections or createAlbum rejects, the run ends there:
\* no further createAlbum call, queueFilesForUpload not invoked, nothing
\* persisted, the progress view closed and the album-creation-failed
\* dialog shown exactly once.
C4_AlbumFailureAborts ==
    \A r \in Runs :
        r.albumRejected =>
            /\ r.pc = "done"
            /\ ~r.queued
            /\ \A i \in 1..Len(r.log) :
                  r.log[i] \notin {"queueFilesForUpload",
                                   "setToUploadCollection",
                                   "postUploadAction"}
            /\ Len(r.albumCalls) <= Len(r.albumResults) + 1
            /\ r.albumFailedDialogs = 1
            /\ ~uploadProgressView

C4_Witness ==
    /\ justEnded.albumRejected
    /\ Len(justEnded.map) = 2
    /\ Len(justEnded.albumResults) = 1
    /\ Len(justEnded.items) > 0

\* C5: once a batch has ended, on whatever path, and no other batch is
\* running, uploadInProgress is false again.
C5_InProgressCleared ==
    (justEnded.pc = "done" /\ Live = {}) => ~uploadInProgress

\* C6: the localIDs of the items of a batch are 0..n-1 in queue order,
\* for an existing collection as for new ones, across groups.
C6_LocalIDs ==
    \A r \in Uploads :
        \A i \in 1..Len(r.items) : r.items[i].localID = i - 1

C6_Witness ==
    \E r \in NewUploads :
        /\ r.queued
        /\ r.strategy = COLLECTION_PER_FOLDER
        /\ Len(r.map) = 2
        /\ Len(r.items) = 3

\* The index of the group of the map that holds file f.
GroupOf(map, f) ==
    CHOOSE g \in 1..Len(map) : f \in Range(map[g].files)

\* C7: in a batch, syncCollections is called once and createAlbum once
\* per distinct group name; every file is enqueued with the id returned
\* for its group and the collections list has one entry per group.
C7_OneAlbumPerGroup ==
    \A r \in NewUploads :
        /\ r.nSyncCollections <= 1
        /\ Distinct(r.albumCalls)
        /\ r.queued =>
            /\ r.nSyncCollections = 1
            /\ Distinct(GroupNames(r.map))
            /\ r.albumCalls = GroupNames(r.map)
            /\ Len(r.collections) = Len(r.map)
            /\ r.strategy = SINGLE_COLLECTION => Len(r.albumCalls) = 1
            /\ \A i \in 1..Len(r.items) :
                  r.items[i].collectionID =
                     r.albumResults[GroupOf(r.map, r.items[i].file)]

C7_Witness ==
    \E r \in NewUploads :
        /\ r.queued
        /\ Len(r.map) = 2
        /\ Len(r.map[1].files) = 2
        /\ r.albumResults[1] # r.albumResults[2]

\* C8: the files of the items handed to queueFilesForUpload are the files
\* of the batch, each once; SINGLE_COLLECTION makes one group of them
\* under the given name, COLLECTION_PER_FOLDER partitions them.
C8_FilesOfBatch ==
    \A r \in Uploads :
        r.queued =>
            /\ Len(r.items) = Len(r.batch)
            /\ Range(ItemFiles(r.items)) = Range(r.batch)
            /\ Distinct(r.batch) => Distinct(ItemFiles(r.items))
            /\ r.strategy = SINGLE_COLLECTION =>
                  r.map = <<[name |-> r.collectionName, files |-> r.batch]>>
            /\ r.strategy = COLLECTION_PER_FOLDER =>
                  /\ Len(FlattenFiles(r.map, 1)) = Len(r.batch)
                  /\ Range(FlattenFiles(r.map, 1)) = Range(r.batch)
                  /\ \A g \in 1..Len(r.map) :
                        \A f \in Range(r.map[g].files) :
                            GroupKey(f) = r.map[g].name

C8_Witness ==
    /\ \E r \in NewUploads :
          r.queued /\ r.strategy = SINGLE_COLLECTION /\ Len(r.batch) = 3
    \/ \E r \in NewUploads :
          r.queued /\ r.strategy = COLLECTION_PER_FOLDER /\ Len(r.batch) = 3

\* C9: createAlbum is called for one group at a time, in the order in
\* which the group names first occur in the grouping map; the collections
\* list and the runs of queue items follow that order.
C9_FirstEncounteredOrder ==
    \A r \in NewUploads :
        /\ Len(r.albumCalls) <= Len(r.map)
        /\ \A i \in 1..Len(r.albumCalls) : r.albumCalls[i] = r.map[i].name
        /\ Len(r.albumCalls) <= Len(r.albumResults) + 1
        /\ r.queued =>
              /\ r.collections = r.albumResults
              /\ ItemFiles(r.items) = FlattenFiles(r.map, 1)
              /\ \A i \in 1..Len(r.collections) :
                    serverCollections[r.collections[i]] = r.map[i].name

C9_Witness ==
    \E r \in NewUploads :
        /\ r.pc = "createAlbum"
        /\ r.gi = 2
        /\ r.albumCalls = <<"A", "B">>
        /\ r.batch = Nested

\* C10: a pending desktop upload that was read with files leads to
\* exactly one resumption attempt: never more than one; once the selection
\* effect has run for the files read, the attempt has been made; and after
\* the attempt the marker and the recorded name are cleared.
C10_ResumedOnce ==
    /\ resumeAttempts <= 1
    /\ resumeAttempts = 1 =>
          /\ ~isPendingDesktopUpload
          /\ ~Truthy(pendingDesktopUploadCollectionName)
    /\ (/\ ~canvasBlocked
        /\ pendingFetch = "done"
        /\ Len(pendingFiles) > 0
        /\ ~effectPending) => resumeAttempts = 1

\* C11: the step that resumes a pending desktop upload starts an upload to
\* new collections at once, without opening the collection selector, the
\* strategy modal or the name prompt: SINGLE_COLLECTION under the recorded
\* name if there is one, COLLECTION_PER_FOLDER otherwise.  A pending record
\* without files starts nothing.
C11_ResumeStep ==
    resumeAttempts' # resumeAttempts =>
        /\ Len(tasks') = Len(tasks) + 1
        /\ LET r == tasks'[Len(tasks')] IN
              /\ r.kind = "new"
              /\ r.resumed
              /\ r.pc = "preSync"
              /\ IF Truthy(pendingDesktopUploadCollectionName)
                 THEN /\ r.strategy = SINGLE_COLLECTION
                      /\ r.collectionName = pendingDesktopUploadCollectionName
                 ELSE r.strategy = COLLECTION_PER_FOLDER
        /\ ~collectionSelector'.open
        /\ choiceModalView' = choiceModalView
        /\ collectionNamer' = collectionNamer

C11_ResumedWithoutPrompt ==
    /\ [][C11_ResumeStep]_vars
    /\ []((pendingFetch = "done" /\ Len(pendingFiles) = 0) =>
            /\ resumeAttempts = 0
            /\ ~isPendingDesktopUpload
            /\ \A r \in Runs : ~r.resumed)

C11_Witness ==
    \E r \in NewUploads :
        /\ r.resumed
        /\ r.strategy = SINGLE_COLLECTION
        /\ r.collectionName = "P"
        /\ r.batch = pendingFiles
        /\ r.queued

\* The position of the first occurrence of e in a log, 0 if there is none.
IndexOf(log, e) ==
    IF \E i \in 1..Len(log) : log[i] = e
    THEN CHOOSE i \in 1..Len(log) :
            /\ log[i] = e
            /\ \A j \in 1..(i - 1) : log[j] # e
    ELSE 0

Persisted(log) ==
    /\ IndexOf(log, "setToUploadCollection") > 0
    /\ IndexOf(log, "setToUploadCollection")
          < IndexOf(log, "setToUploadFiles:FILES")
    /\ IndexOf(log, "setToUploadFiles:ZIPS") > 0 =>
          /\ IndexOf(log, "setToUploadCollection")
                < IndexOf(log, "setToUploadFiles:ZIPS")
          /\ IndexOf(log, "setToUploadFiles:ZIPS")
                < IndexOf(log, "setToUploadFiles:FILES")
    /\ IndexOf(log, "setToUploadFiles:FILES")
          < IndexOf(log, "queueFilesForUpload")

NotPersisted(log) ==
    \A i \in 1..Len(log) :
        log[i] \notin {"setToUploadCollection", "setToUploadFiles:ZIPS",
                       "setToUploadFiles:FILES"}

\* C12: on the desktop a batch that is not a resumption has its target
\* collections and its file paths persisted (setToUploadCollection, then
\* setToUploadFiles) before queueFilesForUpload is invoked; in the browser
\* neither call is made.
C12_PersistedBeforeQueue ==
    \A r \in Uploads :
        /\ (isElectron /\ ~r.resumed /\ r.queued) => Persisted(r.log)
        /\ ~isElectron => NotPersisted(r.log)

\* The runs that ended in this step with a rejection of
\* queueFilesForUpload or retryFailedFiles.
QueueFailures ==
    {r \in Runs : r.rejectedWith # Null /\ r.queued}

PlanSelectorNotification(message, text) ==
    [variant |-> "danger", message |-> message,
     action |-> [text |-> text, callback |-> "showPlanSelectorModal"]]

\* C13: a rejection of queueFilesForUpload or retryFailedFiles is shown by
\* its kind: SESSION_EXPIRED by the session-expired message and no
\* notification, SUBSCRIPTION_EXPIRED and STORAGE_QUOTA_EXCEEDED each by
\* their own danger notification with a plan-selector action, anything else
\* by the unknown-error notification.
C13_ErrorShownByKind ==
    \A r \in QueueFailures :
        CASE r.rejectedWith = SESSION_EXPIRED ->
               /\ r.sessionExpiredShown > 0
               /\ r.notifications = <<>>
          [] r.rejectedWith = SUBSCRIPTION_EXPIRED ->
               /\ r.sessionExpiredShown = 0
               /\ Range(r.notifications) =
                    {PlanSelectorNotification("SUBSCRIPTION_EXPIRED",
                                              "UPGRADE_NOW")}
          [] r.rejectedWith = STORAGE_QUOTA_EXCEEDED ->
               /\ r.sessionExpiredShown = 0
               /\ Range(r.notifications) =
                    {PlanSelectorNotification("STORAGE_QUOTA_EXCEEDED",
                                              "RENEW_NOW")}
          [] OTHER ->
               /\ r.sessionExpiredShown = 0
               /\ Range(r.notifications) =
                    {[variant |-> "danger", message |-> "UNKNOWN_ERROR",
                      action |-> NoAction]}

C13_Witness ==
    /\ justEnded.kind = "retry"
    /\ justEnded.queued
    /\ justEnded.rejectedWith = STORAGE_QUOTA_EXCEEDED

\* C14: when the queueing call rejects, the error is shown exactly once
\* for the batch, and it is shown before the progress view is closed.
C14_ShownOnceBeforeClose ==
    \A r \in QueueFailures :
        /\ r.sessionExpiredShown + Len(r.notifications) = 1
        /\ IndexOf(r.log, showUserFacingError(r.rejectedWith)) > 0
        /\ IndexOf(r.log, showUserFacingError(r.rejectedWith))
              < IndexOf(r.log, "closeUploadProgress")
        /\ ~uploadProgressView

C14_Witness ==
    /\ justEnded.kind = "new"
    /\ justEnded.queued
    /\ justEnded.rejectedWith = SUBSCRIPTION_EXPIRED
    /\ Len(justEnded.notifications) = 1

TransferCalls ==
    {"syncCollections", "createAlbum", "queueFilesForUpload",
     "retryFailedFiles"}

\* C15: the forced silent sync of preUploadAction has completed before any
\* syncCollections, createAlbum, queueFilesForUpload or retryFailedFiles
\* call of the run; once queueFilesForUpload or retryFailedFiles has
\* settled, postUploadAction has run: syncWithRemote is called again and
\* uploadInProgress is false.
C15_BracketedBySyncs ==
    \A r \in Runs :
        /\ \A i \in 1..Len(r.log) :
              r.log[i] \in TransferCalls =>
                  /\ IndexOf(r.log, "preSyncDone") > 0
                  /\ IndexOf(r.log, "preSyncDone") < i
        /\ (r.queued /\ r.pc = "done") =>
              /\ r.log[Len(r.log)] = "postUploadAction"
              /\ ~uploadInProgress

C15_Witness ==
    /\ justEnded.kind = "new"
    /\ justEnded.ended = "uploaded"
    /\ Len(justEnded.albumCalls) = 2
    /\ Live # {}

\* The run started in this step, if one was.
Started == tasks'[Len(tasks')]

\* The user answers the collection selector with "new album" for a batch
\* whose suggestion had no root folder name and no nested folders.
C16_NewAlbumForLooseFiles ==
    /\ SelectorNewAlbum
    /\ collectionSelector.showNextModal = "single"
    /\ collectionSelector.rootFolderName \in {Null, FIRST_ALBUM_NAME}

\* C16: when the user sends a batch of loose files to a new album, a first
\* upload starts an upload to the single collection "My First Album"
\* without opening the name prompt; otherwise the name prompt opens and no
\* upload is started, and the prompt starts one only with a name.
C16_FirstAlbumStep ==
    /\ C16_NewAlbumForLooseFiles =>
          IF isFirstUpload
          THEN /\ Len(tasks') = Len(tasks) + 1
               /\ Started.strategy = SINGLE_COLLECTION
               /\ Started.collectionName = FIRST_ALBUM_NAME
               /\ collectionNamer' = collectionNamer
          ELSE /\ collectionNamer'
               /\ tasks' = tasks
    /\ NamerSubmit =>
          \/ tasks' = tasks
          \/ /\ Len(tasks') = Len(tasks) + 1
             /\ Started.strategy = SINGLE_COLLECTION
             /\ Truthy(Started.collectionName)

C16_FirstAlbumName == [][C16_FirstAlbumStep]_vars

C16_Witness ==
    /\ isFirstUpload
    /\ \E r \in NewUploads :
          /\ ~r.resumed
          /\ r.collectionName = FIRST_ALBUM_NAME
          /\ r.batch = Loose
          /\ r.albumCalls = <<FIRST_ALBUM_NAME>>

\* A step that starts an upload that is not a resumption.
C17_Start ==
    /\ Len(tasks') > Len(tasks)
    /\ Started.kind \in {"existing", "new"}
    /\ ~Started.resumed

\* The selection effect takes up the files of a desktop zip dialog.
C17_ZipImport ==
    /\ isElectron
    /\ effectPending
    /\ Len(webFiles) = 0
    /\ Len(sharedFiles) = 0
    /\ electronSrc = ZIPS

\* C17: an upload that is neither a resumption nor a desktop zip import is
\* started only by an answer of the user: to the collection selector
\* (existing album, or new album when the suggestion has no nested
\* folders: a single collection named by the root folder), to the strategy
\* modal that "new album" opens when the suggestion has nested folders,
\* or to the name prompt.  A desktop zip import starts COLLECTION_PER_FOLDER
\* at once.
C17_Step ==
    /\ C17_Start =>
          IF C17_ZipImport
          THEN /\ Started.kind = "new"
               /\ Started.strategy = COLLECTION_PER_FOLDER
               /\ ~collectionSelector'.open
               /\ choiceModalView' = choiceModalView
          ELSE \/ /\ collectionSelector.open
                  /\ Started.kind = "existing"
               \/ /\ collectionSelector.open
                  /\ collectionSelector.showNextModal = "single"
                  /\ Started.strategy = SINGLE_COLLECTION
                  /\ Started.collectionName =
                        collectionSelector.rootFolderName
               \/ /\ choiceModalView
                  /\ \/ Started.strategy = COLLECTION_PER_FOLDER
                     \/ /\ Started.strategy = SINGLE_COLLECTION
                        /\ Started.collectionName =
                              importSuggestion.rootFolderName
               \/ /\ collectionNamer
                  /\ NamerSubmit
                  /\ Started.strategy = SINGLE_COLLECTION
    /\ (SelectorNewAlbum /\ collectionSelector.showNextModal = "choice") =>
          (choiceModalView' /\ tasks' = tasks)

C17_AnsweredBeforeUpload == [][C17_Step]_vars


\* C18: after cancelUploads the progress view is closed, uploadInProgress is
\* false and Router.reload() has been called as the last call, after which
\* the component takes no further step; on the desktop app
\* ImportService.cancelRemainingUploads() is called before the reload, on
\* the web it is not called.
C18_Cancelled ==
    reloaded =>
        /\ ~uploadProgressView
        /\ ~uploadInProgress
        /\ Len(cancelCalls) > 0
        /\ cancelCalls[Len(cancelCalls)] = "Router.reload"
        /\ IndexOf(cancelCalls, "closeUploadProgress") > 0
        /\ IndexOf(cancelCalls, "setUploadInProgress(false)") > 0
        /\ isElectron =>
              /\ IndexOf(cancelCalls, "cancelRemainingUploads") > 0
              /\ IndexOf(cancelCalls, "cancelRemainingUploads")
                    < IndexOf(cancelCalls, "Router.reload")
        /\ ~isElectron => IndexOf(cancelCalls, "cancelRemainingUploads") = 0

C18_CancelClearsAndReloads ==
    /\ [](C18_Cancelled)
    /\ [](~reloaded => cancelCalls = <<>>)
    /\ [][~reloaded]_vars

\* A batch of the desktop app was cancelled while it was running.
C18_Witness ==
    /\ reloaded
    /\ isElectron
    /\ \E t \in 1..Len(tasks) : Unended(tasks[t]) /\ tasks[t].pc # "preSync"


\* C19: in every state the counters of the upload manager satisfy
\* finished = succeeded + failed + skipped and finished <= total, and in the
\* state in which an upload that was not aborted by a batch-fatal error
\* ends, finished = total.
C19_CountersConsistent ==
    /\ mgr.finished = mgr.succeeded + mgr.failed + mgr.skipped
    /\ mgr.finished <= mgr.total
    /\ justEnded.ended = "uploaded" => mgr.finished = mgr.total


\* C20: a run of retryFailed calls neither syncCollections nor createAlbum,
\* and what its retryFailedFiles call re-enqueues is exactly the items the
\* manager had recorded as failed when the user asked for the retry, each
\* with the collection it was first queued for.
C20_RetryOnlyFailed ==
    \A r \in Runs :
        r.kind = "retry" =>
            /\ r.nSyncCollections = 0
            /\ r.albumCalls = <<>>
            /\ IndexOf(r.log, "syncCollections") = 0
            /\ r.queued => r.items = r.failedBefore


\* C21: a retry asked for when no item is recorded as failed leaves the
\* counters and the numbers of finished uploads by outcome as they were:
\* in the state in which such a retry ends they are what they were when
\* the retry was asked for.
C21_EmptyRetryIsNoOp ==
    (/\ justEnded.kind = "retry"
     /\ justEnded.failedBefore = <<>>
     /\ justEnded.ended = "uploaded")
        => /\ Counters(mgr) = justEnded.countersBefore
           /\ mgr.failedFiles = <<>>


\* The steps by which a selection arrives: the props, the shared files, the
\* desktop dialog or the pending record deliver files, or the selection
\* effect runs on them.
C22_Arrival ==
    \/ PickerDelivers
    \/ DragAndDrop
    \/ FilesShared
    \/ handleDesktopUpload
    \/ resumeDesktopUpload
    \/ SelectionEffect

\* C22: while uploadInProgress is true, a run of the selection effect
\* changes nothing but its own scheduling (a setElectronFiles call that
\* was waiting behind it becomes the state), and no step by which a
\* selection arrives changes toUploadFiles, the import suggestion, the
\* runs and their queues, or the manager, opens the collection selector or
\* another modal, or starts an upload function.
C22_Step ==
    /\ (uploadInProgress /\ SelectionEffect) =>
          /\ UNCHANGED <<envVars, propVars, sharedFiles, webFiles,
                         webFilesSrc, refVars, modalVars, batchVars,
                         miscVars>>
          /\ IF queuedElectronFiles = <<>>
             THEN UNCHANGED <<electronFiles, electronSrc>>
             ELSE /\ electronFiles' = queuedElectronFiles[1].files
                  /\ electronSrc' = queuedElectronFiles[1].src
    /\ (uploadInProgress /\ C22_Arrival) =>
          UNCHANGED <<toUploadFiles, importSuggestion, modalVars, tasks, mgr,
                      uploadProgressView, uploadInProgress, resumeAttempts,
                      serverCollections>>

C22_NoOpWhileInProgress == [][C22_Step]_vars

\* The effect has run on a dropped selection while a batch was uploading
\* and has left it where it was.
C22_Witness ==
    /\ uploadInProgress
    /\ ~canvasBlocked
    /\ ~effectPending
    /\ Len(webFiles) > 0
    /\ \E t \in 1..Len(tasks) : tasks[t].pc = "queue"


\* A selection has been taken into toUploadFiles and its items are not
\* built yet: the user has still to answer for it, or the upload function
\* started for it is still in preUploadAction.
C23_Unbuilt ==
    \/ collectionSelector.open /\ collectionSelector.answers = 0
    \/ choiceModalView /\ choiceAnswers = 0
    \/ collectionNamer /\ namerAnswers = 0
    \/ \E t \in 1..Len(tasks) :
          tasks[t].kind \in {"existing", "new"} /\ tasks[t].pc = "preSync"

\* C23: from the moment a selection is taken into toUploadFiles until its
\* items are built from toUploadFiles, no step replaces toUploadFiles: the
\* files enqueued are those of the selection the user answered for, and
\* no selection that was taken is dropped.
C23_Step == C23_Unbuilt => toUploadFiles' = toUploadFiles

C23_SelectionKept == [][C23_Step]_vars


\* C24: in every step in which handleCollectionCreationAndUpload takes the
\* pending-desktop-upload branch, toUploadFiles is the file list that
\* getPendingUploads returned.
C24_Step ==
    resumeAttempts' > resumeAttempts => toUploadFiles' = pendingFiles

C24_MarkerForResumedFiles == [][C24_Step]_vars


\* C25: a run resumed from the pending desktop record calls neither
\* ImportService.setToUploadCollection nor setToUploadFiles.
C25_ResumedNotPersisted ==
    \A r \in Runs : r.resumed => NotPersisted(r.log)


\* Every run of the single-collection path has a non-empty name, and so
\* has every createAlbum call it makes.
C26_NamedSingleCollections ==
    \A r \in NewUploads :
        r.strategy = SINGLE_COLLECTION =>
            /\ Truthy(r.collectionName)
            /\ \A i \in 1..Len(r.albumCalls) : Truthy(r.albumCalls[i])

\* The step opens (or keeps open) the name prompt and starts no run.
C26_BackToPrompt == collectionNamer' /\ tasks' = tasks

\* An empty name from the suggestion, chosen in the collection selector or
\* in the strategy choice, and an empty name typed into the name prompt.
C26_EmptyFromUser ==
    /\ (/\ SelectorNewAlbum
        /\ collectionSelector.showNextModal = "single"
        /\ ~Truthy(collectionSelector.rootFolderName)) => C26_BackToPrompt
    /\ (/\ ChoiceSingleCollection
        /\ ~Truthy(importSuggestion.rootFolderName)) => C26_BackToPrompt
    /\ NamerSubmit =>
          \/ C26_BackToPrompt
          \/ /\ Len(tasks') = Len(tasks) + 1
             /\ Started.strategy = SINGLE_COLLECTION
             /\ Truthy(Started.collectionName)

\* The selection effect takes the pending branch with a record that has no
\* collection name.
C26_EmptyFromRecord ==
    /\ SelectionEffect
    /\ SelectionTaken
    /\ isPendingDesktopUpload
    /\ ~Truthy(pendingDesktopUploadCollectionName)

\* C26 as stated: no run of the single-collection path and no createAlbum
\* call of such a run has an empty or missing name, and an empty name from
\* the suggestion, the resumed record or the name prompt leads to the name
\* prompt and to no upload.
C26_EmptyNameToPrompt ==
    /\ [](C26_NamedSingleCollections)
    /\ [][C26_EmptyFromUser]_vars
    /\ [][C26_EmptyFromRecord => C26_BackToPrompt]_vars

\* C26, amended: no run of the single-collection path and no createAlbum
\* call of such a run has an empty or missing name; an empty name from the
\* suggestion or the name prompt leads to the name prompt and to no upload;
\* a resumed record without a name starts a COLLECTION_PER_FOLDER upload
\* and opens no prompt.
C26_EmptyNameNeverSingle ==
    /\ [](C26_NamedSingleCollections)
    /\ [][C26_EmptyFromUser]_vars
    /\ [][C26_EmptyFromRecord =>
            /\ Len(tasks') = Len(tasks) + 1
            /\ Started.resumed
            /\ Started.strategy = COLLECTION_PER_FOLDER
            /\ collectionNamer' = collectionNamer]_vars

\* Loose files whose suggestion has no name were sent to a new album and
\* the name prompt is open instead of an upload.
C26_Witness ==
    /\ collectionNamer
    /\ ~isFirstUpload
    /\ toUploadFiles = Loose
    /\ ~Truthy(importSuggestion.rootFolderName)
    /\ Len(tasks) = 0


(***************************************************************************)
(* lib/main.dart: the start-up of one isolate of the mobile app.  The      *)
(* isolate is either the one main() runs in, or one the platform starts    *)
(* for a headless fetch task or a background push.  One action is one run  *)
(* of Dart code between two awaits.                                        *)
(***************************************************************************)
MaxEvents == 2

FetchKinds == {"fetch", "headless"}

\* An async function started by an event.  kind: "foreground" is
\* _runInForeground, "fetch" _runBackgroundTask, "headless"
\* _headlessTaskHandler, "push" _firebaseMessagingBackgroundHandler.
\* finishes counts the calls of BackgroundFetch.finish(taskId); poll is the
\* state of the _scheduleBGTaskKill(taskId) chain; appKill says that a
\* _killBGTask(taskId) call made by EnteApp is at its awaits; fgSync is the
\* state of the _scheduleFGSync chain; calledInit, synced and sawForeground
\* record what the function did.
NewProc(kind, pc, taskId, shouldSync) ==
    [kind |-> kind, pc |-> pc, taskId |-> taskId, shouldSync |-> shouldSync,
     finishes |-> 0, poll |-> "off", appKill |-> FALSE, fgSync |-> "off",
     calledInit |-> FALSE, synced |-> FALSE, sawForeground |-> FALSE]

InForeground == procs # <<>> /\ procs[1].kind = "foreground"

\* _init up to its first await: a call that finds _initializationStatus
\* set returns its future, the first call creates the Completer and starts
\* the initialisers.
InitPc == IF initializationStatus = "null" THEN "initBody" ELSE "initWait"

callInit ==
    /\ initializationStatus' =
           IF initializationStatus = "null" THEN "pending"
           ELSE initializationStatus
    /\ initBody' = IF initializationStatus = "null" THEN "running" ELSE initBody
    /\ initRuns' = IF initializationStatus = "null" THEN initRuns + 1
                   ELSE initRuns

\* _scheduleSuicide(duration): arms a timer whose callback calls
\* _killBGTask(taskID); no caller passes a taskID.
scheduleSuicide == IF suicide = "off" THEN "armed" ELSE suicide

\* What follows `await _init(...)` in the three callers.  _runInForeground
\* calls _scheduleFGSync, which starts _sync at once, and then runApp.
AfterInit(p) ==
    CASE p.kind = "foreground" ->
           [p EXCEPT !.pc = "running", !.fgSync = "syncing", !.synced = TRUE]
      [] p.kind \in FetchKinds -> [p EXCEPT !.pc = "sync", !.synced = TRUE]
      [] OTHER -> IF p.shouldSync
                  THEN [p EXCEPT !.pc = "sync", !.synced = TRUE]
                  ELSE [p EXCEPT !.pc = "done"]

InitMain ==
    /\ NoUploader
    /\ LockAtRest
    /\ platformIsIOS \in BOOLEAN
    /\ isolateAlive = TRUE
    /\ initializationStatus = "null"
    /\ initBody = "none"
    /\ initRuns = 0
    /\ procs \in {<<>>, <<NewProc("foreground", "logs", 0, FALSE)>>}
    /\ suicide = "off"
    /\ nEvents = 0


\* The variables no step of main.dart changes.
NotMain == <<isElectron, electronAPIs, isFirstUpload, canvasBlocked, propVars,
             fileVars,
             effectPending, refVars, modalVars, batchVars, miscVars,
             justEnded, lockVars>>

\* BackgroundFetch delivers an event to the running app: EnteApp, built by
\* runApp, calls _runBackgroundTask(taskId).
BackgroundFetchEvent ==
    /\ isolateAlive /\ nEvents < MaxEvents
    /\ InForeground /\ procs[1].pc = "running"
    /\ nEvents' = nEvents + 1
    /\ procs' = Append(procs,
           NewProc("fetch",
                   IF initializationStatus = "null" THEN "logs" ELSE "delay",
                   nEvents + 1, FALSE))
    /\ UNCHANGED <<platformIsIOS, isolateAlive, initializationStatus,
                   initBody, initRuns, suicide, NotMain>>

\* BackgroundFetch delivers an event while the app is terminated:
\* _headlessTaskHandler(task).
HeadlessTask(timeout) ==
    /\ isolateAlive /\ nEvents < MaxEvents
    /\ ~InForeground
    /\ nEvents' = nEvents + 1
    /\ procs' = Append(procs,
           IF timeout
           THEN [NewProc("headless", "done", nEvents + 1, FALSE)
                    EXCEPT !.finishes = 1]
           ELSE NewProc("headless", "delay", nEvents + 1, FALSE))
    /\ UNCHANGED <<platformIsIOS, isolateAlive, initializationStatus,
                   initBody, initRuns, suicide, NotMain>>

\* A push arrives: _firebaseMessagingBackgroundHandler(message), which
\* _init registers on iOS only.
PushMessage(shouldSync) ==
    /\ isolateAlive /\ nEvents < MaxEvents
    /\ platformIsIOS
    /\ nEvents' = nEvents + 1
    /\ procs' = Append(procs,
           IF initializationStatus = "null"
           THEN NewProc("push", "logs", 0, shouldSync)
           ELSE IF shouldSync
                THEN [NewProc("push", "sync", 0, shouldSync)
                         EXCEPT !.synced = TRUE]
                ELSE NewProc("push", "done", 0, shouldSync))
    /\ UNCHANGED <<platformIsIOS, isolateAlive, initializationStatus,
                   initBody, initRuns, suicide, NotMain>>

\* _runWithLogs: getTemporaryDirectory has answered and SuperLogging.main
\* runs the body up to its first await.
LogsReady(i) ==
    /\ isolateAlive
    /\ procs[i].pc = "logs"
    /\ IF procs[i].kind = "fetch"
       THEN /\ procs' = [procs EXCEPT ![i].pc = "delay"]
            /\ UNCHANGED <<initializationStatus, initBody, initRuns, suicide>>
       ELSE /\ procs' = [procs EXCEPT ![i].pc = InitPc,
                                      ![i].calledInit = TRUE]
            /\ callInit
            /\ suicide' = IF procs[i].kind = "push" /\ platformIsIOS
                          THEN scheduleSuicide ELSE suicide
    /\ UNCHANGED <<platformIsIOS, isolateAlive, nEvents, NotMain>>

\* _runInBackground: the 3 seconds are over, _isRunningInForeground is
\* called.
DelayOver(i) ==
    /\ isolateAlive
    /\ procs[i].pc = "delay"
    /\ procs' = [procs EXCEPT ![i].pc = "fgCheck"]
    /\ UNCHANGED <<platformIsIOS, isolateAlive, initializationStatus,
                   initBody, initRuns, suicide, nEvents, NotMain>>

\* _runInBackground after `await _isRunningInForeground()`; fresh is the
\* answer, which depends on the heartbeat another process writes.
ForegroundChecked(i, fresh) ==
    /\ isolateAlive
    /\ procs[i].pc = "fgCheck"
    /\ IF fresh
       THEN /\ procs' = [procs EXCEPT ![i].pc = "done",
                                      ![i].sawForeground = TRUE,
                                      ![i].finishes = @ + 1]
            /\ UNCHANGED <<initializationStatus, initBody, initRuns, suicide>>
       ELSE /\ procs' = [procs EXCEPT ![i].pc = InitPc,
                                      ![i].poll = "checking",
                                      ![i].calledInit = TRUE]
            /\ suicide' = IF platformIsIOS THEN scheduleSuicide ELSE suicide
            /\ callInit
    /\ UNCHANGED <<platformIsIOS, isolateAlive, nEvents, NotMain>>

\* _init: the last initialiser has returned, the Completer is completed
\* and the caller that ran the initialisers goes on.
InitialisersDone(i) ==
    /\ isolateAlive
    /\ procs[i].pc = "initBody"
    /\ initializationStatus' = "complete"
    /\ initBody' = "done"
    /\ procs' = [procs EXCEPT ![i] = AfterInit(@)]
    /\ UNCHANGED <<platformIsIOS, isolateAlive, initRuns, suicide, nEvents,
                   NotMain>>

\* _init: an awaited initialiser throws; _init has no try, so the error
\* leaves _init and its caller, and the Completer stays as it is.
InitialiserThrows(i) ==
    /\ isolateAlive
    /\ procs[i].pc = "initBody"
    /\ initBody' = "failed"
    /\ procs' = [procs EXCEPT ![i].pc = "threw"]
    /\ UNCHANGED <<platformIsIOS, isolateAlive, initializationStatus,
                   initRuns, suicide, nEvents, NotMain>>

\* A caller that was handed _initializationStatus.future goes on once the
\* Completer is completed.
InitReturns(i) ==
    /\ isolateAlive
    /\ procs[i].pc = "initWait"
    /\ initializationStatus = "complete"
    /\ procs' = [procs EXCEPT ![i] = AfterInit(@)]
    /\ UNCHANGED <<platformIsIOS, isolateAlive, initializationStatus,
                   initBody, initRuns, suicide, nEvents, NotMain>>

\* _sync has returned (it catches the errors of SyncService.sync);
\* _runInBackground then calls BackgroundFetch.finish(taskId).
SyncSettled(i) ==
    /\ isolateAlive
    /\ procs[i].pc = "sync"
    /\ procs' = [procs EXCEPT ![i].pc = "done",
                              ![i].finishes =
                                  IF procs[i].kind \in FetchKinds
                                  THEN @ + 1 ELSE @]
    /\ UNCHANGED <<platformIsIOS, isolateAlive, initializationStatus,
                   initBody, initRuns, suicide, nEvents, NotMain>>

\* _scheduleFGSync after `await _sync()`: the next round is set for
\* kFGSyncFrequency later.
FGSyncSettled(i) ==
    /\ isolateAlive
    /\ procs[i].fgSync = "syncing"
    /\ procs' = [procs EXCEPT ![i].fgSync = "sleeping"]
    /\ UNCHANGED <<platformIsIOS, isolateAlive, initializationStatus,
                   initBody, initRuns, suicide, nEvents, NotMain>>

\* The delayed callback of _scheduleFGSync calls it again: _sync starts.
FGSyncWakes(i) ==
    /\ isolateAlive
    /\ procs[i].fgSync = "sleeping"
    /\ procs' = [procs EXCEPT ![i].fgSync = "syncing"]
    /\ UNCHANGED <<platformIsIOS, isolateAlive, initializationStatus,
                   initBody, initRuns, suicide, nEvents, NotMain>>

\* EnteApp calls the _killBGTask it was given (l.60) for a task id it was
\* handed: _killBGTask(taskId) up to its awaits.
AppKillsBGTask(i) ==
    /\ isolateAlive
    /\ InForeground /\ procs[1].pc = "running"
    /\ procs[i].kind = "fetch"
    /\ ~procs[i].appKill
    /\ procs' = [procs EXCEPT ![i].appKill = TRUE]
    /\ UNCHANGED <<platformIsIOS, isolateAlive, initializationStatus,
                   initBody, initRuns, suicide, nEvents, NotMain>>

\* _scheduleBGTaskKill after `await _isRunningInForeground()`: it goes into
\* _killBGTask(taskId), or sleeps kHeartBeatFrequency.
KillPollChecked(i, fresh) ==
    /\ isolateAlive
    /\ procs[i].poll = "checking"
    /\ procs' = [procs EXCEPT ![i].poll =
                                  IF fresh THEN "killing" ELSE "sleeping"]
    /\ UNCHANGED <<platformIsIOS, isolateAlive, initializationStatus,
                   initBody, initRuns, suicide, nEvents, NotMain>>

\* The delayed callback of _scheduleBGTaskKill calls it again.
KillPollWakes(i) ==
    /\ isolateAlive
    /\ procs[i].poll = "sleeping"
    /\ procs' = [procs EXCEPT ![i].poll = "checking"]
    /\ UNCHANGED <<platformIsIOS, isolateAlive, initializationStatus,
                   initBody, initRuns, suicide, nEvents, NotMain>>

\* _killBGTask(taskId) after its awaits: finish(taskId), then the isolate
\* is killed.
killBGTask(i) ==
    /\ isolateAlive
    /\ procs[i].poll = "killing" \/ procs[i].appKill
    /\ procs' = [procs EXCEPT ![i].finishes = @ + 1]
    /\ isolateAlive' = FALSE
    /\ UNCHANGED <<platformIsIOS, initializationStatus, initBody, initRuns,
                   suicide, nEvents, NotMain>>

\* The timer of _scheduleSuicide fires: _killBGTask(null) up to its await.
SuicideFires ==
    /\ isolateAlive
    /\ suicide = "armed"
    /\ suicide' = "killing"
    /\ UNCHANGED <<platformIsIOS, isolateAlive, initializationStatus,
                   initBody, initRuns, procs, nEvents, NotMain>>

\* _killBGTask(null) after its awaits: taskId is null, so no finish; the
\* isolate is killed.
killBGTaskNoId ==
    /\ isolateAlive
    /\ suicide = "killing"
    /\ isolateAlive' = FALSE
    /\ UNCHANGED <<platformIsIOS, initializationStatus, initBody, initRuns,
                   procs, suicide, nEvents, NotMain>>

NextMain ==
    \/ BackgroundFetchEvent
    \/ \E timeout \in BOOLEAN : HeadlessTask(timeout)
    \/ \E shouldSync \in BOOLEAN : PushMessage(shouldSync)
    \/ \E i \in 1..Len(procs) : LogsReady(i)
    \/ \E i \in 1..Len(procs) : DelayOver(i)
    \/ \E i \in 1..Len(procs), fresh \in BOOLEAN : ForegroundChecked(i, fresh)
    \/ \E i \in 1..Len(procs) : InitialisersDone(i)
    \/ \E i \in 1..Len(procs) : InitialiserThrows(i)
    \/ \E i \in 1..Len(procs) : InitReturns(i)
    \/ \E i \in 1..Len(procs) : SyncSettled(i)
    \/ \E i \in 1..Len(procs) : FGSyncSettled(i)
    \/ \E i \in 1..Len(procs) : FGSyncWakes(i)
    \/ \E i \in 1..Len(procs) : AppKillsBGTask(i)
    \/ \E i \in 1..Len(procs), fresh \in BOOLEAN : KillPollChecked(i, fresh)
    \/ \E i \in 1..Len(procs) : KillPollWakes(i)
    \/ \E i \in 1..Len(procs) : killBGTask(i)
    \/ SuicideFires
    \/ killBGTaskNoId

SpecMain == InitMain /\ [][NextMain]_vars

FetchTasks == {i \in 1..Len(procs) : procs[i].kind \in FetchKinds}

\* The _init calls that have returned to their caller.
InitReturned ==
    {i \in 1..Len(procs) :
        procs[i].calledInit /\ procs[i].pc \in {"running", "sync", "done"}}

\* C27: the initialisers are started at most once in an isolate, an _init
\* call returns only when they have all finished, and no _init call is
\* left waiting for a Completer that nothing will complete, which is what
\* a failed initialiser must not cause.
C27_InitOnce ==
    /\ initRuns <= 1
    /\ InitReturned # {} => initBody = "done"
    /\ \A i \in 1..Len(procs) :
          procs[i].pc = "initWait" => initBody \in {"running", "done"}


\* C28: every background fetch task id handed to the isolate is reported
\* through BackgroundFetch.finish(taskId) exactly once on every path: never
\* twice, and once by the time the isolate has killed itself; and a task
\* that found a fresh foreground heartbeat at its start has finished
\* without calling _init or _sync.
C28_FinishedExactlyOnce ==
    /\ \A i \in FetchTasks : procs[i].finishes <= 1
    /\ ~isolateAlive => \A i \in FetchTasks : procs[i].finishes = 1
    /\ \A i \in FetchTasks :
          procs[i].sawForeground => /\ procs[i].finishes = 1
                                    /\ ~procs[i].calledInit
                                    /\ ~procs[i].synced


(***************************************************************************)
(* lib/ui/tools/lock_screen.dart: one _LockScreenState from its initState  *)
(* to its disposal.  Times are milliseconds since initState.               *)
(***************************************************************************)
AuthGraceMs == 5000
Tick == 2500
MaxTime == 7500
MaxRequests == 3

AuthResults == {"true", "false", "throws"}

\* The variables no step of the lock screen changes.
NotLock == <<isElectron, electronAPIs, isFirstUpload, canvasBlocked, propVars,
             fileVars,
             effectPending, refVars, modalVars, batchVars, miscVars,
             justEnded, mainVars>>

\* _showLockScreen(source) up to its await of requestAuthentication.
showLockScreen(source) ==
    /\ Len(requested) < MaxRequests
    /\ isShowingLockScreen' = TRUE
    /\ outstanding' = outstanding + 1
    /\ requested' = Append(requested, source)

\* didAuthInLast5Seconds (l.70-72).
didAuthInLast5Seconds ==
    /\ lastAuthenticatingTime # <<>>
    /\ now - lastAuthenticatingTime[1] < AuthGraceMs

\* The State after initState: _showLockScreen(source: "initState") has run
\* up to its await.
InitLock ==
    /\ NoUploader
    /\ MainAtRest
    /\ isShowingLockScreen = TRUE
    /\ hasPlacedAppInBackground = FALSE
    /\ hasAuthenticationFailed = FALSE
    /\ lastAuthenticatingTime = <<>>
    /\ now = 0
    /\ lifecycle = "resumed"
    /\ outstanding = 1
    /\ requested = <<"initState">>
    /\ widget = "mounted"

\* The Unlock button is tapped.
TapUnlock ==
    /\ widget = "mounted" /\ lifecycle = "resumed"
    /\ showLockScreen("tapUnlock")
    /\ UNCHANGED <<hasPlacedAppInBackground, hasAuthenticationFailed,
                   lastAuthenticatingTime, now, lifecycle, widget, NotLock>>

\* The states the platform may report after `from`.
LifecycleAfter(from) ==
    CASE from = "resumed" -> {"inactive"}
      [] from = "inactive" -> {"resumed", "paused"}
      [] OTHER -> {"inactive", "resumed"}

\* didChangeAppLifecycleState(state), delivered while the observer is
\* registered.
didChangeAppLifecycleState(state) ==
    /\ widget \in {"mounted", "unlocked"}
    /\ state \in LifecycleAfter(lifecycle)
    /\ lifecycle' = state
    /\ IF state = "resumed" /\ ~isShowingLockScreen
       THEN /\ hasPlacedAppInBackground' = FALSE
            /\ IF ~hasAuthenticationFailed /\ ~didAuthInLast5Seconds
               THEN /\ showLockScreen("lifeCycle")
                    /\ UNCHANGED hasAuthenticationFailed
               ELSE /\ hasAuthenticationFailed' = FALSE
                    /\ UNCHANGED <<isShowingLockScreen, outstanding,
                                   requested>>
       ELSE IF state \in {"paused", "inactive"} /\ ~isShowingLockScreen
       THEN /\ hasPlacedAppInBackground' = TRUE
            /\ hasAuthenticationFailed' = FALSE
            /\ UNCHANGED <<isShowingLockScreen, outstanding, requested>>
       ELSE UNCHANGED <<hasPlacedAppInBackground, hasAuthenticationFailed,
                        isShowingLockScreen, outstanding, requested>>
    /\ UNCHANGED <<lastAuthenticatingTime, now, widget, NotLock>>

\* _showLockScreen after its await: requestAuthentication returned true or
\* false, or threw (the catch only logs).
authSettles(result) ==
    /\ outstanding > 0
    /\ outstanding' = outstanding - 1
    /\ isShowingLockScreen' =
           IF result = "throws" THEN isShowingLockScreen ELSE FALSE
    /\ lastAuthenticatingTime' =
           IF result = "true" THEN <<now>> ELSE lastAuthenticatingTime
    /\ widget' = IF result = "true" /\ widget = "mounted"
                 THEN "unlocked" ELSE widget
    /\ hasAuthenticationFailed' =
           IF result = "false" /\ ~hasPlacedAppInBackground
           THEN TRUE ELSE hasAuthenticationFailed
    /\ UNCHANGED <<hasPlacedAppInBackground, now, lifecycle, requested,
                   NotLock>>

\* AppLock removes the lock screen after didUnlock: dispose().
dispose ==
    /\ widget = "unlocked"
    /\ widget' = "disposed"
    /\ UNCHANGED <<isShowingLockScreen, hasPlacedAppInBackground,
                   hasAuthenticationFailed, lastAuthenticatingTime, now,
                   lifecycle, outstanding, requested, NotLock>>

\* Time passes.
ClockTick ==
    /\ now + Tick <= MaxTime
    /\ now' = now + Tick
    /\ UNCHANGED <<isShowingLockScreen, hasPlacedAppInBackground,
                   hasAuthenticationFailed, lastAuthenticatingTime,
                   lifecycle, outstanding, requested, widget, NotLock>>

NextLock ==
    \/ TapUnlock
    \/ \E state \in {"resumed", "inactive", "paused"} :
           didChangeAppLifecycleState(state)
    \/ \E result \in AuthResults : authSettles(result)
    \/ dispose
    \/ ClockTick

SpecLock == InitLock /\ [][NextLock]_vars

\* C29: while the lock screen is mounted, _isShowingLockScreen is true
\* exactly while a requestAuthentication call is outstanding.
C29_FlagIffPending ==
    widget = "mounted" => (isShowingLockScreen <=> outstanding > 0)


\* A "resumed" event reaches the mounted lock screen while no
\* authentication prompt is showing, that is while no requestAuthentication
\* call is outstanding.
C30_ResumedWithoutPrompt ==
    /\ didChangeAppLifecycleState("resumed")
    /\ widget = "mounted"
    /\ outstanding = 0

C30_Suppressed == hasAuthenticationFailed \/ didAuthInLast5Seconds

\* On such an event a new authentication is requested unless a failure is
\* recorded or one succeeded within the last 5 seconds; the event that is
\* suppressed clears the recorded failure, so that it suppresses one prompt.
C30_ResumedStep ==
    C30_ResumedWithoutPrompt =>
        /\ C30_Suppressed => /\ requested' = requested
                             /\ outstanding' = 0
                             /\ ~hasAuthenticationFailed'
        /\ ~C30_Suppressed => /\ requested' = Append(requested, "lifeCycle")
                              /\ outstanding' = 1

\* An authentication that returns false is recorded as a failure if and
\* only if the user had not put the app in the background.
C30_FailedStep ==
    authSettles("false") =>
        hasAuthenticationFailed' =
            (hasAuthenticationFailed \/ ~hasPlacedAppInBackground)

\* Only a "resumed" event requests an authentication with the source
\* "lifeCycle".
C30_AutomaticStep ==
    (/\ Len(requested') > Len(requested)
     /\ requested'[Len(requested')] = "lifeCycle")
        => /\ lifecycle # "resumed"
           /\ lifecycle' = "resumed"

\* C30: the lock screen prompts again automatically only on a "resumed"
\* event; on a "resumed" event with no prompt showing a new authentication
\* is requested unless a failure is recorded or one succeeded within the
\* last 5 seconds; a failed authentication counts as a failure only if the
\* user had not put the app in the background, and a recorded failure
\* suppresses exactly one automatic prompt.
C30_AutomaticPrompt ==
    [][C30_ResumedStep /\ C30_FailedStep /\ C30_AutomaticStep]_vars

====
